---- MODULE Spec2Model ----
(***************************************************************************)
(* The WiZ config flow (custom_components/wiz/config_flow.py) as a state   *)
(* machine: user, DHCP and integration-discovery flows running             *)
(* concurrently against the committed config entries and the home-config   *)
(* store.  Every handler is cut at its real suspension points (the home    *)
(* download, the bulb queries, the store read of the name resolver); the   *)
(* code between two suspension points is one atomic step, as it is under   *)
(* the cooperative scheduler.                                              *)
(*                                                                         *)
(* The hosting framework (homeassistant.config_entries) is consumed, not   *)
(* implemented, by the flow.  Its operations are modelled at their call    *)
(* sites with the contract the framework has: async_set_unique_id stores   *)
(* the id in the flow context and, with raise_on_progress, aborts when     *)
(* another flow in progress holds the same id; _abort_if_unique_id_        *)
(* configured compares the context id with entry.unique_id by string       *)
(* equality, merges the updates into the entry data and aborts; finishing  *)
(* a flow with a create_entry result removes an entry that carries the     *)
(* same unique id before it adds the new one.  An exception other than     *)
(* AbortFlow leaves the handler; the flow stays in progress.               *)
(***************************************************************************)
EXTENDS Naturals, Sequences, FiniteSets, TLC

\* ------------------------------------------------------------- bounds
\* Flow slots: the number of flows that can be in progress at one time.
MaxFlows == 2
\* Handler invocations (flow starts and form submissions) in one behaviour.
MaxInvocations == 2
\* Calls of the methods of one wizhome object in one behaviour.
MaxHomeCalls == 4
\* Calls on a CustomEffectManager in a behaviour.
MaxLoads == 3
\* Custom effects in a home document.
MaxEffects == 2

\* ---------------------------------------------------------- constants
Flows == 1..MaxFlows

DEFAULT_NAME == "WiZ"
WIZ_HOME_LINK == "WiZ app link"
LinkPrefix == "https://wiz-s3-local-integration-dev-artifacts"

\* Python's None where a string is expected (str | None).
None == "<None>"

\* ------------------------------------------------------ string helpers
LowerChars == "abcdefghijklmnopqrstuvwxyz"
UpperChars == "ABCDEFGHIJKLMNOPQRSTUVWXYZ"

CharAt(s, i) == SubSeq(s, i, i)

\* c mapped from alphabet `from` to alphabet `to`; unchanged when not in `from`.
MapChar(c, from, to) ==
  IF \E i \in 1..Len(from) : CharAt(from, i) = c
  THEN CharAt(to, CHOOSE i \in 1..Len(from) : CharAt(from, i) = c)
  ELSE c

RECURSIVE MapStr(_, _, _)
MapStr(s, from, to) ==
  IF s = "" THEN ""
  ELSE MapChar(CharAt(s, 1), from, to) \o MapStr(SubSeq(s, 2, Len(s)), from, to)

\* str.upper() and str.lower()
Upper(s) == MapStr(s, LowerChars, UpperChars)
Lower(s) == MapStr(s, UpperChars, LowerChars)

\* str.replace(":", "")
RECURSIVE StripColons(_)
StripColons(s) ==
  IF s = "" THEN ""
  ELSE LET c == CharAt(s, 1)
           r == StripColons(SubSeq(s, 2, Len(s)))
       IN IF c = ":" THEN r ELSE c \o r

\* s[-n:]
LastChars(s, n) == IF Len(s) <= n THEN s ELSE SubSeq(s, Len(s) - n + 1, Len(s))

\* str.startswith(p)
StartsWith(s, p) == Len(s) >= Len(p) /\ SubSeq(s, 1, Len(p)) = p

\* ------------------------------------------------------------- inputs
\* Host strings a user or a hint can carry: empty, a host name, IP literals.
IpLiterals == {"10.0.0.5", "10.0.0.6"}
Hosts == {"", "bulb.local"} \cup IpLiterals

\* homeassistant.util.network.is_ip_address, on the host strings above.
is_ip_address(host) == host \in IpLiterals

\* MAC strings as a bulb or a hint can report them: one device in two written
\* forms, and a second device.
MacStrings == {"AA:BB:CC:11:22:33", "aabbcc112233", "a8bb50445566"}

\* The MAC format of DhcpServiceInfo.macaddress: lower case, no colons.
DhcpMacs == {"aabbcc112233", "a8bb50445566"}

\* BulbType objects a bulb can answer get_bulbtype() with.
RgbBulb == [kind |-> "BulbType", bulb_type |-> "RGB", white_channels |-> 2]
TwBulb == [kind |-> "BulbType", bulb_type |-> "TW", white_channels |-> 2]
BulbTypes == {RgbBulb, TwBulb}

\* A device keeps its type: the device aabbcc112233 is an RGB bulb, the device
\* a8bb50445566 a tunable-white one.
TypeOfDevice(mac) == IF mac = "a8bb50445566" THEN TwBulb ELSE RgbBulb

\* str(bulbtype): a string, which has no bulb_type attribute.
Str(bt) == [kind |-> "str", bulb_type |-> bt.bulb_type, white_channels |-> bt.white_channels]

\* Link strings a user can submit with the first-setup form.
GoodLink == "https://wiz-s3-local-integration-dev-artifacts/home.json"
Links == {"", "http://evil.example/x", GoodLink}

\* Parsed home documents a download can yield: the empty object {} and a
\* document with one device in one room.
EmptyConfig == [empty |-> TRUE, devices |-> <<>>, rooms |-> <<>>]
KitchenConfig ==
  [empty |-> FALSE,
   devices |-> << [mac_address |-> "aa:bb:cc:11:22:33", name |-> "Kitchen Light", room_id |-> 7] >>,
   rooms |-> << [room_id |-> 7, name |-> "Kitchen"] >>]
HomeConfigs == {EmptyConfig, KitchenConfig}

\* What the HTTP download of the home config can end with.
DownloadFailures == {"http_status", "client_error", "json_error"}
DownloadOutcomes ==
  [kind : DownloadFailures, config : {EmptyConfig}]
    \cup [kind : {"ok"}, config : HomeConfigs]

\* What reading the bundled file wiz_home_config.json can end with: no such
\* file, its parsed content, a content that json.loads rejects, an OSError.
LocalFailures == {"missing", "json_error", "os_error"}
LocalOutcomes ==
  [kind : LocalFailures, config : {EmptyConfig}]
    \cup [kind : {"ok"}, config : {KitchenConfig}]

\* What the two bulb queries (get_bulbtype, getMac) can end with: an answer,
\* WizLightConnectionError, WizLightTimeOutError, an OSError of the socket, or
\* any other exception.
QueryFailures == {"connection_error", "timeout", "os_error", "other_error"}
QueryOutcomes ==
  [kind : QueryFailures, bulbtype : {RgbBulb}, mac : {None}]
    \cup {[kind |-> "ok", bulbtype |-> TypeOfDevice(m), mac |-> m] : m \in MacStrings}

\* ------------------------------------------------------- wizhome inputs
\* Home structures as json.loads returns them.  header tells whether the
\* object has the keys home_id, name, creation_date, update_date and
\* udp_signing_key; an empty sequence stands for an absent or empty list.
FlatDoc ==
  [header |-> TRUE, home_id |-> "42", name |-> "Flat",
   creation_date |-> "2024-01-01", update_date |-> "2024-02-01",
   udp_signing_key |-> "k42",
   rooms |-> << [room_id |-> 7, name |-> "Kitchen"], [room_id |-> 8, name |-> "Hall"] >>,
   devices |-> << [mac_address |-> "aabbcc112233", name |-> "Kitchen Light", room_id |-> 7] >>,
   groups |-> << [group_id |-> 3, name |-> "Ceiling"] >>]
CabinDoc ==
  [header |-> TRUE, home_id |-> "43", name |-> "Cabin",
   creation_date |-> "2024-03-01", update_date |-> "2024-04-01",
   udp_signing_key |-> "k43",
   rooms |-> << [room_id |-> 1, name |-> "Den"] >>,
   devices |-> << [mac_address |-> "a8bb50445566", name |-> "Lamp", room_id |-> 1],
                  [mac_address |-> "d8a011000001", name |-> "Spot", room_id |-> 1] >>,
   groups |-> << >>]
BareDoc ==
  [header |-> TRUE, home_id |-> "44", name |-> "Bare",
   creation_date |-> "2024-05-01", update_date |-> "2024-06-01",
   udp_signing_key |-> "k44",
   rooms |-> << >>, devices |-> << >>, groups |-> << >>]
HeaderlessDoc == [FlatDoc EXCEPT !.header = FALSE]
HomeDocuments == {FlatDoc, CabinDoc, BareDoc, HeaderlessDoc}

\* Text contents: none (Python's None, or no such file), a text that is not
\* JSON, and the serialization of a home structure.
NoText == [kind |-> "none", doc |-> BareDoc]
Garbage == [kind |-> "garbage", doc |-> BareDoc]
Serialized(doc) == [kind |-> "json", doc |-> doc]
Texts == {Garbage} \cup {Serialized(d) : d \in HomeDocuments}

\* File names: the default path of home.py and another one.
_DEFAULT_HOME_STRUCTURE_FILEPATH == "home_structure.json"
FileNames == {_DEFAULT_HOME_STRUCTURE_FILEPATH, "my_home.json"}
CloudURL == "https://cloud.example/home.json"

\* What requests.get can end with: a response with a status and a text, or
\* an exception of the requests library.
Responses ==
  {[status |-> "200", text |-> t] : t \in {Garbage, Serialized(FlatDoc), Serialized(CabinDoc)}}
    \cup {[status |-> "404", text |-> Garbage], [status |-> "raised", text |-> Garbage]}

\* wizhome.__init__
wizhome(homeID, cloudURL, fileName) ==
  [homeID |-> homeID, cloudURL |-> cloudURL, fileName |-> fileName,
   jsonHome |-> NoText, devices |-> << >>, groups |-> << >>, rooms |-> << >>,
   name |-> None, creation_date |-> None, update_date |-> None,
   udp_signing_key |-> None]

NoFiles == [n \in FileNames |-> NoText]

\* -------------------------------------------------------------- state
VARIABLES
  entries,      \* the committed config entries, in creation order
  store,        \* the "wiz_home_config" Store: what async_load returns
  flows,        \* per flow slot: the flow's position and instance state
  onboarded,    \* onboarding.async_is_onboarded(hass)
  last,         \* history: what the handler that returned in the last step did
  invocations,  \* history: handler invocations so far (bounds the behaviour)
  home,         \* a wizhome object (pywizlight/home.py)
  files,        \* the files a wizhome object reads and writes, by name
  discovered_devices,  \* the dict of a scan: MAC -> DiscoveredBulb
  manager       \* a CustomEffectManager: its two lists

vars ==
  <<entries, store, flows, onboarded, last, invocations, home, files,
    discovered_devices,
               manager>>

NoErrors == [host |-> "", base |-> ""]
NoResult == [type |-> "none", step_id |-> "", reason |-> "", errors |-> NoErrors]
NoDevice == [ip_address |-> None, mac_address |-> None]
NoBulbType == [kind |-> "none", bulb_type |-> "", white_channels |-> 0]
NoDownload == [kind |-> "none", config |-> EmptyConfig]

\* A free slot.  pc is the flow's position: idle (no flow), form (a form is
\* shown), download, validating and naming (suspended in the await of that
\* name), crashed (an exception left its first handler).  step_id is the form
\* the flow shows.  handler and the fields after it describe the running
\* invocation: the handler, whether it got user input and what it read of the
\* onboarding (FALSE when it did not read it), its result once it
\* returns, whether it called the validator, whether that call created a bulb
\* handle, how the bulb queries ended, the errors the validator returned, what
\* the invocation wrote to the entries and the host the entry had before,
\* whether it issued the HTTP request for link and whether it saved the store,
\* the validator's bulb handle (none, open or closed), how the download
\* of the home config ended, and, for the rename pass, the position of its
\* loop in the entries and what it did with the entries before.
IdleFlow ==
  [pc |-> "idle", source |-> "none", step_id |-> "",
   discovered_device |-> NoDevice, unique_id |-> None,
   host |-> "", link |-> "", first_setup |-> FALSE,
   bulbtype |-> NoBulbType, mac |-> None, wiz_home_link |-> None,
   handler |-> "", has_input |-> FALSE, is_onboarded |-> FALSE,
   result |-> NoResult,
   called |-> FALSE, queried |-> FALSE, query |-> "none", verrors |-> NoErrors,
   wrote |-> "none", old_host |-> None,
   requested |-> FALSE, stored |-> FALSE, bulb |-> "none",
   download |-> NoDownload, index |-> 0, renames |-> << >>]

\* No handler returned in the last step.
NoReturn ==
  [flow |-> 0, source |-> "none", handler |-> "", has_input |-> FALSE,
   is_onboarded |-> FALSE, host |-> "", unique_id |-> None, result |-> NoResult,
   called |-> FALSE, queried |-> FALSE, query |-> "none", verrors |-> NoErrors,
   wrote |-> "none", old_host |-> None, changed |-> FALSE,
   link |-> "", requested |-> FALSE, stored |-> FALSE, bulb |-> "none",
   bulbtype |-> NoBulbType, mac |-> None, download |-> NoDownload,
   offered |-> << >>, renames |-> << >>, first_setup |-> FALSE,
   discovered_device |-> NoDevice]

NoStore == [present |-> FALSE, url |-> "", config |-> EmptyConfig]

\* CustomEffectManager.__init__: both lists empty.
NewManager == [_preview_effects |-> << >>, _effect_names |-> << >>]

Init ==
  /\ entries = <<>>
  /\ store = NoStore
  /\ flows = [f \in Flows |-> IdleFlow]
  /\ onboarded = FALSE
  /\ last = NoReturn
  /\ invocations = 0
  /\ home = wizhome(None, None, None)
  /\ files = NoFiles
  /\ discovered_devices = << >>
  /\ manager = NewManager

\* ------------------------------------------------- home-config storage
\* WizHomeConfigStorage.async_load_config: stored_data.get("config") if
\* stored_data else None.  [some |-> FALSE] is None.
async_load_config(st) ==
  IF st.present THEN [some |-> TRUE, config |-> st.config]
  ELSE [some |-> FALSE, config |-> EmptyConfig]

\* Python truth of a loaded config: None and the empty object {} are false.
Truthy(loaded) == loaded.some /\ ~loaded.config.empty

\* WizHomeConfigStorage.async_has_stored_config: the loaded config is not
\* None; the empty object {} is not None.
async_has_stored_config(st) == async_load_config(st).some

\* WizConfigFlow._is_first_setup
_is_first_setup(st) == ~st.present \/ st.config.empty

\* What async_download_and_validate_wiz_home stores on success.
StoredConfig(url, config) == [present |-> TRUE, url |-> url, config |-> config]

\* A variant of async_download_and_store_config that saves the response text
\* before it parses it: a body that is not JSON leaves an empty config stored.
DownloadAndStoreSavesBeforeParse(st, url, outcome) ==
  IF url = "" THEN [store |-> st, ok |-> FALSE, requested |-> FALSE]
  ELSE IF outcome.kind = "ok"
  THEN [store |-> StoredConfig(url, outcome.config), ok |-> TRUE, requested |-> TRUE]
  ELSE IF outcome.kind = "json_error"
  THEN [store |-> StoredConfig(url, EmptyConfig), ok |-> FALSE, requested |-> TRUE]
  ELSE [store |-> st, ok |-> FALSE, requested |-> TRUE]

\* WizHomeConfigStorage.async_download_and_store_config(url): an empty url
\* returns False at once; any other url is requested, and the parsed body of
\* a 200 response is saved.  requested tells whether the HTTP request was made.
async_download_and_store_config(st, url, outcome) ==
  IF url = "" THEN [store |-> st, ok |-> FALSE, requested |-> FALSE]
  ELSE IF outcome.kind = "ok"
  THEN [store |-> StoredConfig(url, outcome.config), ok |-> TRUE, requested |-> TRUE]
  ELSE [store |-> st, ok |-> FALSE, requested |-> TRUE]

\* WizHomeConfigStorage.async_load_local_config_and_store: the parsed content
\* of the bundled file is saved, with a file_path and no url; a missing file
\* and a failed read or parse return False.
async_load_local_config_and_store(st, outcome) ==
  IF outcome.kind = "ok"
  THEN [store |-> StoredConfig(None, outcome.config), ok |-> TRUE]
  ELSE [store |-> st, ok |-> FALSE]

\* WizHomeConfigStorage.async_clear_config: Store.async_remove, after which
\* async_load returns None.
async_clear_config(st) == NoStore

\* A variant of async_download_and_validate_wiz_home that returns True for a
\* parsed body without saving it.
DownloadAndValidateWithoutSave(st, url, outcome) ==
  [store |-> st, ok |-> outcome.kind = "ok"]

\* WizConfigFlow.async_download_and_validate_wiz_home(url) once the request
\* ended: the parsed body of a 200 response is saved and True returned; any
\* other status, a network error and a body that json.loads rejects return
\* False with the store untouched.
async_download_and_validate_wiz_home(st, url, outcome) ==
  IF outcome.kind = "ok"
  THEN [store |-> StoredConfig(url, outcome.config), ok |-> TRUE]
  ELSE [store |-> st, ok |-> FALSE]

\* The link test of async_step_user.
LinkAllowed(link) == StartsWith(link, LinkPrefix)

\* -------------------------------------------------------- name resolver
\* A variant of _short_mac without the .upper() call.
ShortMacKeepsCase(mac) == LastChars(StripColons(mac), 6)

_short_mac(mac) == LastChars(Upper(StripColons(mac)), 6)

\* A variant of name_from_bulb_type_and_mac without the white-channel test.
NameIgnoresWhiteChannels(bulb_type, mac) ==
  IF bulb_type.kind # "BulbType" THEN [ok |-> FALSE, name |-> ""]
  ELSE [ok |-> TRUE,
        name |-> DEFAULT_NAME \o " "
                   \o (IF bulb_type.bulb_type = "RGB" THEN "RGBWW Tunable"
                       ELSE "Random bulb lol")
                   \o " " \o _short_mac(mac)]

\* name_from_bulb_type_and_mac: [ok |-> FALSE] is the AttributeError that
\* reading .bulb_type of a str raises.
name_from_bulb_type_and_mac(bulb_type, mac) ==
  IF bulb_type.kind # "BulbType" THEN [ok |-> FALSE, name |-> ""]
  ELSE LET description ==
             IF bulb_type.bulb_type = "RGB"
             THEN (IF bulb_type.white_channels = 2 THEN "RGBWW Tunable" ELSE "RGBW Tunable")
             ELSE "Random bulb lol"
       IN [ok |-> TRUE,
           name |-> DEFAULT_NAME \o " " \o description \o " " \o _short_mac(mac)]

\* _find_device_by_mac: the first device whose mac_address equals mac, case
\* ignored; index 0 is None.
_find_device_by_mac(config, mac_address) ==
  LET hits == {i \in DOMAIN config.devices :
                 Lower(config.devices[i].mac_address) = Lower(mac_address)}
  IN IF hits = {} THEN 0 ELSE CHOOSE i \in hits : \A j \in hits : i <= j

\* _find_room_by_id: the first room with that room_id; index 0 is None.
_find_room_by_id(config, room_id) ==
  LET hits == {i \in DOMAIN config.rooms : config.rooms[i].room_id = room_id}
  IN IF hits = {} THEN 0 ELSE CHOOSE i \in hits : \A j \in hits : i <= j

\* get_device_and_room_name_by_mac: (device_name, room_name), None for absent.
get_device_and_room_name_by_mac(st, mac_address) ==
  LET wiz_config == async_load_config(st)
      d == _find_device_by_mac(wiz_config.config, mac_address)
  IN IF ~Truthy(wiz_config) \/ d = 0
     THEN [device_name |-> None, room_name |-> None]
     ELSE LET device == wiz_config.config.devices[d]
              r == IF device.room_id # 0
                   THEN _find_room_by_id(wiz_config.config, device.room_id)
                   ELSE 0
          IN [device_name |-> device.name,
              room_name |-> IF r # 0 THEN wiz_config.config.rooms[r].name ELSE None]

\* build_full_bulb_name
build_full_bulb_name(st, bulb_type, mac_address) ==
  LET names == get_device_and_room_name_by_mac(st, mac_address)
      base == name_from_bulb_type_and_mac(bulb_type, mac_address)
      full_device_name ==
        IF names.room_name \notin {None, ""}
        THEN names.device_name \o " (" \o names.room_name \o ")"
        ELSE names.device_name
  IN IF names.device_name \in {None, ""} THEN base
     ELSE IF ~base.ok THEN base
     ELSE [ok |-> TRUE, name |-> full_device_name \o " [" \o base.name \o "]"]

\* ------------------------------------------------------------ validator
\* A variant of HostErrors without the address test.
HostErrorsNoAddressTest(host) ==
  IF host = "" THEN [host |-> "host_required", base |-> ""] ELSE NoErrors

\* A variant of HostErrors without the test for an empty host.
HostErrorsNoEmptyTest(host) ==
  IF ~is_ip_address(host) THEN [host |-> "no_ip", base |-> ""] ELSE NoErrors

\* WizConfigFlow.async_validate_and_connect_bulb without its awaits: whether
\* the host passes the two format tests and a bulb handle is created.
HostErrors(host) ==
  IF host = "" THEN [host |-> "host_required", base |-> ""]
  ELSE IF ~is_ip_address(host) THEN [host |-> "no_ip", base |-> ""]
  ELSE NoErrors

\* A variant of QueryErrors that reports every failure as cannot_connect.
QueryErrorsAllCannotConnect(outcome) ==
  IF outcome.kind = "ok" THEN NoErrors ELSE [host |-> "", base |-> "cannot_connect"]

\* The except clauses of WizConfigFlow.async_validate_and_connect_bulb.
QueryErrors(outcome) ==
  CASE outcome.kind = "connection_error" -> [host |-> "", base |-> "cannot_connect"]
    [] outcome.kind = "timeout"          -> [host |-> "", base |-> "bulb_time_out"]
    [] outcome.kind = "os_error"         -> [host |-> "", base |-> "unknown"]
    [] outcome.kind = "other_error"      -> [host |-> "", base |-> "unknown"]
    [] OTHER                             -> NoErrors

\* The validator's return value (bulbtype, mac, errors) once the queries ended.
ValidatorResult(outcome) ==
  IF outcome.kind = "ok"
  THEN [bulbtype |-> outcome.bulbtype, mac |-> outcome.mac, errors |-> NoErrors]
  ELSE [bulbtype |-> NoBulbType, mac |-> None, errors |-> QueryErrors(outcome)]

\* dict.update on the errors dict.
ErrorsUpdate(a, b) ==
  [host |-> IF b.host # "" THEN b.host ELSE a.host,
   base |-> IF b.base # "" THEN b.base ELSE a.base]

\* ----------------------------------------------------- framework calls
\* A flow is in progress from its start until it ends aborted or created.
InProgress(fl) == fl.pc # "idle"

\* A variant of AlreadyInProgress that finds no flow in progress.
NeverInProgress(fls, f, unique_id) == FALSE

\* async_set_unique_id(..., raise_on_progress=True): another flow in progress
\* holds the same unique id.
AlreadyInProgress(fls, f, unique_id) ==
  \E g \in Flows \ {f} : InProgress(fls[g]) /\ fls[g].unique_id = unique_id

\* _abort_if_unique_id_configured: an entry carries the flow's unique id.
UniqueIdConfigured(es, unique_id) ==
  \E i \in DOMAIN es : es[i].unique_id = unique_id

\* _abort_if_unique_id_configured(updates={CONF_HOST: host}): the entry's data
\* with the host replaced.
HostOf(es, unique_id) ==
  IF UniqueIdConfigured(es, unique_id)
  THEN es[CHOOSE i \in DOMAIN es : es[i].unique_id = unique_id].host
  ELSE None

\* A variant of UpdateHost that leaves the configured entry as it is.
UpdateHostKeepsHost(es, unique_id, host) == es

UpdateHost(es, unique_id, host) ==
  [i \in DOMAIN es |->
     IF es[i].unique_id = unique_id THEN [es[i] EXCEPT !.host = host] ELSE es[i]]

HasOtherId(e, unique_id) == e.unique_id # unique_id

\* Finishing a flow whose result is create_entry: an entry with the same
\* unique id is removed, the new entry is added.
FinishCreateEntry(es, entry) ==
  Append(SelectSeq(es, LAMBDA e : HasOtherId(e, entry.unique_id)), entry)

\* What a storage operation returns to its caller.
ReturnResult(value) ==
  [type |-> "return", step_id |-> "", reason |-> value, errors |-> NoErrors]

\* Flow results.
FormResult(step_id, errors) ==
  [type |-> "form", step_id |-> step_id, reason |-> "", errors |-> errors]
AbortResult(reason) ==
  [type |-> "abort", step_id |-> "", reason |-> reason, errors |-> NoErrors]
CreateEntryResult == [type |-> "create_entry", step_id |-> "", reason |-> "", errors |-> NoErrors]
ExceptionResult == [type |-> "exception", step_id |-> "", reason |-> "", errors |-> NoErrors]

\* ----------------------------------------------------------- the flow
\* A world is the pair a handler step works on: its own flow and the entries.
World(fl, es) == [flow |-> fl, entries |-> es]

\* The flow when its handler returns a form: it waits for the submission.
ShowForm(fl, step_id, errors) ==
  [fl EXCEPT !.pc = "form", !.step_id = step_id, !.result = FormResult(step_id, errors)]

\* The flow when its handler returns or raises an abort: it is over.
Abort(fl, reason) == [fl EXCEPT !.pc = "idle", !.result = AbortResult(reason)]

\* The flow when its handler returns a create_entry result: it is over.
Created(fl) == [fl EXCEPT !.pc = "idle", !.result = CreateEntryResult]

\* The flow when an exception leaves its handler: a flow that has shown a form
\* still shows it, a flow in its first invocation has nothing to go back to.
Raise(fl) ==
  [fl EXCEPT !.pc = IF fl.step_id = "" THEN "crashed" ELSE "form",
             !.result = ExceptionResult]

\* A variant of FirstHomeLink that finds no link.
NoHomeLink(es) == None

\* get_wiz_home_link_from_entries / lines 118-122 of async_create_bulb_entry:
\* the link of the first entry that has one.
FirstHomeLink(es) ==
  LET hits == {i \in DOMAIN es : es[i].wiz_home_link # None}
  IN IF hits = {} THEN None
     ELSE es[CHOOSE i \in hits : \A j \in hits : i <= j].wiz_home_link

\* A variant of async_create_bulb_entry without _abort_if_unique_id_configured.
CreateBulbEntryNoDedup(fl, es, host, bulbtype, mac) ==
  World([fl EXCEPT !.pc = "naming", !.unique_id = mac, !.host = host,
                   !.bulbtype = bulbtype, !.mac = mac,
                   !.wiz_home_link = FirstHomeLink(es)],
        es)

\* async_create_bulb_entry up to its await of build_full_bulb_name: the link
\* is read, the unique id set, and a configured unique id ends the flow with
\* the entry's host updated.
async_create_bulb_entry(fl, es, host, bulbtype, mac) ==
  IF UniqueIdConfigured(es, mac)
  THEN World([Abort(fl, "already_configured") EXCEPT
                !.unique_id = mac, !.host = host,
                !.wrote = "update_host", !.old_host = HostOf(es, mac)],
             UpdateHost(es, mac, host))
  ELSE World([fl EXCEPT !.pc = "naming", !.unique_id = mac, !.host = host,
                        !.bulbtype = bulbtype, !.mac = mac,
                        !.wiz_home_link = FirstHomeLink(es)],
             es)

\* The entry async_create_entry is called with (lines 127-133).
NewEntry(fl, title) ==
  [unique_id |-> fl.unique_id, host |-> fl.host, title |-> title,
   wiz_home_link |-> IF fl.wiz_home_link \notin {None, ""} THEN fl.wiz_home_link ELSE None]

\* A variant of UserAfterValidation that aborts when the validator failed.
UserAfterValidationAborts(fl, es, res) ==
  LET errors == ErrorsUpdate(NoErrors, res.errors)
  IN IF errors = NoErrors /\ res.bulbtype # NoBulbType /\ res.mac # None
     THEN async_create_bulb_entry(fl, es, fl.host, res.bulbtype, res.mac)
     ELSE World(Abort(fl, "cannot_connect"), es)

\* async_step_user once the validator has returned (lines 207-220).
UserAfterValidation(fl, es, res) ==
  LET errors == ErrorsUpdate(NoErrors, res.errors)
  IN IF errors = NoErrors /\ res.bulbtype # NoBulbType /\ res.mac # None
     THEN async_create_bulb_entry(fl, es, fl.host, res.bulbtype, res.mac)
     ELSE World(ShowForm(fl, "user", errors), es)

\* A variant of ConfirmAfterValidation whose failure branch writes the
\* hinted host to the entry of the flow's unique id.
ConfirmAfterValidationWrites(fl, es, res) ==
  IF res.errors = NoErrors /\ res.bulbtype # NoBulbType /\ res.mac # None
  THEN async_create_bulb_entry(fl, es, fl.host, Str(res.bulbtype), res.mac)
  ELSE World([Abort(fl, "cannot_connect") EXCEPT !.wrote = "update_host"],
             UpdateHost(es, fl.unique_id, fl.host))

\* A variant of ConfirmAfterValidation whose failure branch shows the
\* confirmation form with the validator's errors.
ConfirmAfterValidationShowsForm(fl, es, res) ==
  IF res.errors = NoErrors /\ res.bulbtype # NoBulbType /\ res.mac # None
  THEN async_create_bulb_entry(fl, es, fl.host, Str(res.bulbtype), res.mac)
  ELSE World(ShowForm(fl, "discovery_confirm", res.errors), es)

\* async_step_discovery_confirm once the validator has returned (lines 174-178).
ConfirmAfterValidation(fl, es, res) ==
  IF res.errors = NoErrors /\ res.bulbtype # NoBulbType /\ res.mac # None
  THEN async_create_bulb_entry(fl, es, fl.host, Str(res.bulbtype), res.mac)
  ELSE World(Abort(fl, "cannot_connect"), es)

\* The validator returns to the step that called it.
AfterValidation(fl, es, res) ==
  LET fl1 == [fl EXCEPT !.verrors = res.errors]
  IN IF fl.handler = "user" THEN UserAfterValidation(fl1, es, res)
     ELSE ConfirmAfterValidation(fl1, es, res)

\* The call of async_validate_and_connect_bulb(host): a host that fails the
\* format tests returns at once, without a handle; any other host creates the
\* bulb handle (bulb = wizlight(host)) and suspends in get_bulbtype.  No path
\* of the validator closes the handle.
CallValidator(fl, es, host) ==
  IF HostErrors(host) # NoErrors
  THEN AfterValidation([fl EXCEPT !.host = host, !.called = TRUE], es,
                       [bulbtype |-> NoBulbType, mac |-> None, errors |-> HostErrors(host)])
  ELSE World([fl EXCEPT !.pc = "validating", !.host = host, !.called = TRUE,
                        !.queried = TRUE, !.bulb = "open"], es)

\* A variant of ConfirmValidates that validates at once when onboarded.
ConfirmValidatesWhenOnboarded(has_input, is_onboarded) == has_input \/ is_onboarded

\* async_step_discovery_confirm: who validates at once, who sees the form.
ConfirmValidates(has_input, is_onboarded) == has_input \/ ~is_onboarded

\* A variant of async_step_discovery_confirm without the test for a missing
\* device: the confirmation form is shown for no device.
DiscoveryConfirmWithoutDeviceTest(fl, es, has_input, is_onboarded) ==
  IF fl.discovered_device # NoDevice /\ ConfirmValidates(has_input, is_onboarded)
  THEN CallValidator([fl EXCEPT !.is_onboarded = is_onboarded], es,
                     fl.discovered_device.ip_address)
  ELSE World(ShowForm([fl EXCEPT !.is_onboarded = is_onboarded],
                      "discovery_confirm", NoErrors), es)

async_step_discovery_confirm(fl, es, has_input, is_onboarded) ==
  IF fl.discovered_device = NoDevice
  THEN World(Abort(fl, "no_device_found"), es)
  ELSE IF ConfirmValidates(has_input, is_onboarded)
  THEN CallValidator([fl EXCEPT !.is_onboarded = is_onboarded], es,
                     fl.discovered_device.ip_address)
  ELSE World(ShowForm([fl EXCEPT !.is_onboarded = is_onboarded],
                      "discovery_confirm", NoErrors), es)

\* _async_handle_discovery
_async_handle_discovery(fls, f, fl, es, is_onboarded) ==
  LET ip_address == fl.discovered_device.ip_address
      mac == fl.discovered_device.mac_address
      fl1 == [fl EXCEPT !.host = ip_address]
  IN IF AlreadyInProgress(fls, f, mac)
     THEN World(Abort(fl1, "already_in_progress"), es)
     ELSE IF UniqueIdConfigured(es, mac)
     THEN World([Abort(fl1, "already_configured") EXCEPT
                   !.unique_id = mac,
                   !.wrote = "update_host", !.old_host = HostOf(es, mac)],
                UpdateHost(es, mac, ip_address))
     ELSE async_step_discovery_confirm([fl1 EXCEPT !.unique_id = mac], es, FALSE, is_onboarded)

\* A variant of async_step_user that goes on to the validator when the link
\* of a first setup is not allow-listed.
StepUserIgnoresLink(fl, es, st, host, link) ==
  LET first_setup == _is_first_setup(st)
      fl1 == [fl EXCEPT !.first_setup = first_setup, !.host = host]
  IN IF first_setup /\ LinkAllowed(link)
     THEN World([fl1 EXCEPT !.pc = "download", !.link = link,
                            !.requested = TRUE], es)
     ELSE CallValidator([fl1 EXCEPT !.link = link], es, host)

\* async_step_user with a submission, up to its first suspension: the link
\* test of a first setup, then the download or the validator.
async_step_user(fl, es, st, host, link) ==
  LET first_setup == _is_first_setup(st)
      fl1 == [fl EXCEPT !.first_setup = first_setup, !.host = host]
  IN IF first_setup
     THEN IF ~LinkAllowed(link)
          THEN World(ShowForm([fl1 EXCEPT !.link = link], "user",
                              [host |-> "", base |-> "invalid_link"]), es)
          ELSE World([fl1 EXCEPT !.pc = "download", !.link = link,
                                 !.requested = TRUE], es)
     ELSE CallValidator(fl1, es, host)

\* A variant of UserAfterDownload that goes on to the validator when the
\* download failed.
UserAfterDownloadIgnoresFailure(fl, es, ok) ==
  CallValidator([fl EXCEPT !.stored = ok], es, fl.host)

\* async_step_user once async_download_and_validate_wiz_home has returned
\* (lines 200-206): False sets errors["base"] and the form comes back, True
\* goes on to the validator.
UserAfterDownload(fl, es, ok) ==
  IF ok
  THEN CallValidator([fl EXCEPT !.stored = TRUE], es, fl.host)
  ELSE World(ShowForm(fl, "user", [host |-> "", base |-> "invalid_link"]), es)

\* ------------------------------------------------------ flow bookkeeping
\* A new flow.
NewFlow(source) == [IdleFlow EXCEPT !.source = source, !.handler = source]

\* A handler is invoked with user input on a flow that shows a form.
Invoke(fl, handler) == [fl EXCEPT !.handler = handler, !.has_input = TRUE]

\* Slots are interchangeable: a new flow takes the lowest free one.
FreeSlot(fls, f) ==
  fls[f].pc = "idle" /\ \A g \in Flows : g < f => fls[g].pc # "idle"

\* What a flow keeps between two steps: a suspended handler keeps its locals,
\* a flow that waits at a form keeps its instance state, a crashed flow only
\* what the framework reads of it.
Rest(fl) ==
  CASE fl.pc = "idle" -> IdleFlow
    [] fl.pc = "form" ->
         [IdleFlow EXCEPT !.pc = fl.pc, !.source = fl.source, !.step_id = fl.step_id,
                          !.discovered_device = fl.discovered_device,
                          !.unique_id = fl.unique_id, !.first_setup = fl.first_setup]
    [] fl.pc = "crashed" ->
         [IdleFlow EXCEPT !.pc = fl.pc, !.source = fl.source, !.unique_id = fl.unique_id]
    [] OTHER -> fl

\* The history of the step: the return of f's handler, if it returned.
Summary(f, fl) ==
  IF fl.result = NoResult THEN NoReturn
  ELSE [changed |-> FALSE, flow |-> f, source |-> fl.source, handler |-> fl.handler,
        has_input |-> fl.has_input, is_onboarded |-> fl.is_onboarded,
        host |-> fl.host, unique_id |-> fl.unique_id,
        result |-> fl.result, called |-> fl.called, queried |-> fl.queried,
        query |-> fl.query, verrors |-> fl.verrors,
        wrote |-> fl.wrote, old_host |-> fl.old_host,
        link |-> fl.link, requested |-> fl.requested, stored |-> fl.stored,
        bulb |-> fl.bulb, bulbtype |-> fl.bulbtype, mac |-> fl.mac,
        download |-> fl.download, offered |-> << >>, renames |-> fl.renames,
        first_setup |-> fl.first_setup,
        discovered_device |-> fl.discovered_device]

\* The step of flow f ends in world w.
Settle(f, w) ==
  /\ flows' = [flows EXCEPT ![f] = Rest(w.flow)]
  /\ entries' = w.entries
  /\ last' = [Summary(f, w.flow) EXCEPT !.changed = (w.entries # entries)]

\* ------------------------------------------------------------ actions
Bounded == invocations < MaxInvocations

\* A user starts a flow: async_step_user(None) shows the form.
StepUserInit(f) ==
  /\ FreeSlot(flows, f)
  /\ Settle(f, World(ShowForm([NewFlow("user") EXCEPT !.first_setup = _is_first_setup(store)],
                              "user", NoErrors), entries))
  /\ UNCHANGED <<store, onboarded, invocations,
               home, files, discovered_devices,
               manager>>

\* The user submits the form: async_step_user(user_input).
StepUserSubmit(f) ==
  /\ Bounded
  /\ flows[f].pc = "form" /\ flows[f].step_id = "user"
  /\ \E host \in Hosts, link \in Links :
       Settle(f, async_step_user(Invoke(flows[f], "user"), entries, store, host, link))
  /\ invocations' = invocations + 1
  /\ UNCHANGED <<store, onboarded, home, files, discovered_devices,
               manager>>

\* The download of async_download_and_validate_wiz_home ends: on success the
\* document is saved and async_step_user goes on to the validator, on any
\* failure the form comes back with invalid_link.
DownloadDone(f) ==
  /\ flows[f].pc = "download"
  /\ \E outcome \in DownloadOutcomes :
       LET r == async_download_and_validate_wiz_home(store, flows[f].link, outcome)
       IN /\ store' = r.store
          /\ Settle(f, UserAfterDownload([flows[f] EXCEPT !.download = outcome],
                                         entries, r.ok))
  /\ UNCHANGED <<onboarded, invocations, home, files, discovered_devices,
               manager>>

\* The bulb queries of the validator end, and the step that called it goes on.
ValidateDone(f) ==
  /\ flows[f].pc = "validating"
  /\ \E outcome \in QueryOutcomes :
       Settle(f, AfterValidation([flows[f] EXCEPT !.query = outcome.kind], entries,
                                 ValidatorResult(outcome)))
  /\ UNCHANGED <<store, onboarded, invocations,
               home, files, discovered_devices,
               manager>>

\* A variant of NamingDone whose name resolver removes the stored home config
\* after it has read it.
NamingDoneClearsStore(f) ==
  /\ flows[f].pc = "naming"
  /\ LET title == build_full_bulb_name(store, flows[f].bulbtype, flows[f].mac)
     IN IF title.ok
        THEN Settle(f, World([Created(flows[f]) EXCEPT
                                !.wrote = "create",
                                !.old_host = HostOf(entries, flows[f].unique_id)],
                             FinishCreateEntry(entries, NewEntry(flows[f], title.name))))
        ELSE Settle(f, World(Raise(flows[f]), entries))
  /\ store' = NoStore
  /\ UNCHANGED <<onboarded, invocations, home, files, discovered_devices,
               manager>>

\* build_full_bulb_name returns inside async_create_bulb_entry, and the entry
\* is created; an exception of the name resolver leaves the handler.
NamingDone(f) ==
  /\ flows[f].pc = "naming"
  /\ LET title == build_full_bulb_name(store, flows[f].bulbtype, flows[f].mac)
     IN IF title.ok
        THEN Settle(f, World([Created(flows[f]) EXCEPT
                                !.wrote = "create",
                                !.old_host = HostOf(entries, flows[f].unique_id)],
                             FinishCreateEntry(entries, NewEntry(flows[f], title.name))))
        ELSE Settle(f, World(Raise(flows[f]), entries))
  /\ UNCHANGED <<store, onboarded, invocations,
               home, files, discovered_devices,
               manager>>

\* A passive hint starts a flow: both hint handlers store the device and run
\* _async_handle_discovery.
StartDiscovery(f, ip, mac) ==
  /\ Bounded
  /\ FreeSlot(flows, f)
  /\ Settle(f, _async_handle_discovery(flows, f,
                 [NewFlow("discovery") EXCEPT
                    !.discovered_device = [ip_address |-> ip, mac_address |-> mac]],
                 entries, onboarded))
  /\ invocations' = invocations + 1
  /\ UNCHANGED <<store, onboarded, home, files, discovered_devices,
               manager>>

\* async_step_dhcp
StepDhcp(f) ==
  \E ip \in IpLiterals, mac \in DhcpMacs : StartDiscovery(f, ip, mac)

\* async_step_integration_discovery
StepIntegrationDiscovery(f) ==
  \E ip \in Hosts, mac \in MacStrings : StartDiscovery(f, ip, mac)

\* The user confirms the discovered device: async_step_discovery_confirm({}).
StepDiscoveryConfirm(f) ==
  /\ Bounded
  /\ flows[f].pc = "form" /\ flows[f].step_id = "discovery_confirm"
  /\ Settle(f, async_step_discovery_confirm(Invoke(flows[f], "discovery_confirm"),
                                            entries, TRUE, onboarded))
  /\ invocations' = invocations + 1
  /\ UNCHANGED <<store, onboarded, home, files, discovered_devices,
               manager>>

\* A flow is started at the confirm step itself, by no hint handler:
\* async_step_discovery_confirm(None) runs with _discovered_device = None.
StepDiscoveryConfirmNoDevice(f) ==
  /\ Bounded
  /\ FreeSlot(flows, f)
  /\ Settle(f, async_step_discovery_confirm(NewFlow("discovery_confirm"),
                                            entries, FALSE, onboarded))
  /\ invocations' = invocations + 1
  /\ UNCHANGED <<store, onboarded, home, files, discovered_devices,
               manager>>

\* The storage manager imports a home config:
\* WizHomeConfigStorage.async_download_and_store_config(url).
DownloadAndStoreConfig ==
  /\ Bounded
  /\ \E url \in Links, outcome \in DownloadOutcomes :
       LET r == async_download_and_store_config(store, url, outcome)
       IN /\ store' = r.store
          /\ last' = [NoReturn EXCEPT
                        !.handler = "async_download_and_store_config",
                        !.link = url, !.requested = r.requested,
                        !.download = IF r.requested THEN outcome ELSE NoDownload,
                        !.stored = (r.store # store),
                        !.result = ReturnResult(IF r.ok THEN "True" ELSE "False")]
  /\ invocations' = invocations + 1
  /\ UNCHANGED <<entries, flows, onboarded, home, files, discovered_devices,
               manager>>

\* The storage manager loads the bundled home config:
\* WizHomeConfigStorage.async_load_local_config_and_store().
LoadLocalConfigAndStore ==
  /\ Bounded
  /\ \E outcome \in LocalOutcomes :
       LET r == async_load_local_config_and_store(store, outcome)
       IN /\ store' = r.store
          /\ last' = [NoReturn EXCEPT
                        !.handler = "async_load_local_config_and_store",
                        !.download = outcome,
                        !.stored = (r.store # store),
                        !.result = ReturnResult(IF r.ok THEN "True" ELSE "False")]
  /\ invocations' = invocations + 1
  /\ UNCHANGED <<entries, flows, onboarded, home, files, discovered_devices,
               manager>>

\* The storage manager clears the home config:
\* WizHomeConfigStorage.async_clear_config().
ClearConfig ==
  /\ Bounded
  /\ store' = async_clear_config(store)
  /\ last' = [NoReturn EXCEPT !.handler = "async_clear_config",
                              !.stored = (store # NoStore),
                              !.result = ReturnResult("None")]
  /\ invocations' = invocations + 1
  /\ UNCHANGED <<entries, flows, onboarded, home, files, discovered_devices,
               manager>>

\* The user finishes onboarding.
FinishOnboarding ==
  /\ ~onboarded
  /\ onboarded' = TRUE
  /\ last' = NoReturn
  /\ UNCHANGED <<entries, store, flows, invocations,
               home, files, discovered_devices,
               manager>>

Next ==
  \/ \E f \in Flows : StepUserInit(f)
  \/ \E f \in Flows : StepUserSubmit(f)
  \/ \E f \in Flows : DownloadDone(f)
  \/ \E f \in Flows : ValidateDone(f)
  \/ \E f \in Flows : NamingDone(f)
  \/ \E f \in Flows : StepDhcp(f)
  \/ \E f \in Flows : StepIntegrationDiscovery(f)
  \/ \E f \in Flows : StepDiscoveryConfirm(f)
  \/ \E f \in Flows : StepDiscoveryConfirmNoDevice(f)
  \/ DownloadAndStoreConfig
  \/ LoadLocalConfigAndStore
  \/ ClearConfig
  \/ FinishOnboarding

Spec == Init /\ [][Next]_vars

\* ------------------------------------------------- the name resolver alone
\* Home documents for the name resolver: the ones above, a device whose
\* room_id names no room of the document, a device in the room 0, and a
\* device whose name is empty.
LoftConfig ==
  [empty |-> FALSE,
   devices |-> << [mac_address |-> "aa:bb:cc:11:22:33", name |-> "Loft Light", room_id |-> 9] >>,
   rooms |-> << [room_id |-> 7, name |-> "Kitchen"] >>]
HallConfig ==
  [empty |-> FALSE,
   devices |-> << [mac_address |-> "aa:bb:cc:11:22:33", name |-> "Hall Light", room_id |-> 0] >>,
   rooms |-> << [room_id |-> 0, name |-> "Hall"] >>]
NamelessConfig ==
  [empty |-> FALSE,
   devices |-> << [mac_address |-> "aa:bb:cc:11:22:33", name |-> "", room_id |-> 7] >>,
   rooms |-> << [room_id |-> 7, name |-> "Kitchen"] >>]
NamingConfigs == {EmptyConfig, KitchenConfig, LoftConfig, HallConfig, NamelessConfig}

\* Bulb types for the name resolver: RGB with two and with one white channel,
\* and two other bulb classes.
NamingBulbTypes ==
  {RgbBulb, TwBulb,
   [kind |-> "BulbType", bulb_type |-> "RGB", white_channels |-> 1],
   [kind |-> "BulbType", bulb_type |-> "DW", white_channels |-> 1]}

\* MACs for the name resolver: two devices, each written in two forms.
NamingMacs ==
  {"AA:BB:CC:11:22:33", "aabbcc112233", "A8:BB:50:4D:5E:6F", "a8bb504d5e6f"}

\* A user flow suspended in build_full_bulb_name after its validation
\* succeeded with the bulb type and the MAC.
NamingFlow(bulbtype, mac) ==
  [IdleFlow EXCEPT !.pc = "naming", !.source = "user", !.step_id = "user",
                   !.handler = "user", !.has_input = TRUE, !.host = "10.0.0.5",
                   !.unique_id = mac, !.mac = mac, !.bulbtype = bulbtype,
                   !.called = TRUE, !.queried = TRUE, !.query = "ok",
                   !.bulb = "open"]

InitNaming ==
  /\ entries = <<>>
  /\ store \in {NoStore} \cup {StoredConfig(GoodLink, c) : c \in NamingConfigs}
  /\ flows \in {[f \in Flows |-> IF f = 1 THEN NamingFlow(bt, m) ELSE IdleFlow] :
                   bt \in NamingBulbTypes, m \in NamingMacs}
  /\ onboarded = TRUE
  /\ last = NoReturn
  /\ invocations = 0
  /\ home = wizhome(None, None, None)
  /\ files = NoFiles
  /\ discovered_devices = << >>
  /\ manager = NewManager

NextNaming == \E f \in Flows : NamingDone(f)

SpecNaming == InitNaming /\ [][NextNaming]_vars

\* ------------------------------------- entries that are already configured
\* A second allowed link.
OtherLink == "https://wiz-s3-local-integration-dev-artifacts/flat.json"

\* An entry that _async_current_entries returns when the flow starts: a bulb
\* set up earlier, with or without WIZ_HOME_LINK in its data.
ConfiguredEntry(mac, host, link) ==
  [unique_id |-> mac, host |-> host,
   title |-> DEFAULT_NAME \o " RGBWW Tunable " \o _short_mac(mac),
   wiz_home_link |-> link]

\* The entries the flow can find: one without a link, one with a link, one
\* of each, and two with different links.
ConfiguredEntries ==
  { <<ConfiguredEntry("d8a011000001", "10.0.0.8", None)>>,
    <<ConfiguredEntry("d8a011000001", "10.0.0.8", GoodLink)>>,
    <<ConfiguredEntry("d8a011000001", "10.0.0.8", None),
      ConfiguredEntry("d8a011000002", "10.0.0.9", GoodLink)>>,
    <<ConfiguredEntry("d8a011000001", "10.0.0.8", OtherLink),
      ConfiguredEntry("d8a011000002", "10.0.0.9", GoodLink)>> }

InitLinked ==
  /\ entries \in ConfiguredEntries
  /\ store = NoStore
  /\ flows = [f \in Flows |-> IdleFlow]
  /\ onboarded = FALSE
  /\ last = NoReturn
  /\ invocations = 0
  /\ home = wizhome(None, None, None)
  /\ files = NoFiles
  /\ discovered_devices = << >>
  /\ manager = NewManager

SpecLinked == InitLinked /\ [][Next]_vars

\* ------------------------------------------------- the devices of a scan
\* DiscoveredBulb objects of a scan.
ScanDevices ==
  {[ip_address |-> "10.0.0.5", mac_address |-> "aabbcc112233"],
   [ip_address |-> "10.0.0.6", mac_address |-> "a8bb50445566"],
   [ip_address |-> "10.0.0.8", mac_address |-> "d8a011000001"],
   [ip_address |-> "10.0.0.7", mac_address |-> "d8a011000002"]}

\* The dict of a scan: each device under its MAC.
DevicesByMac(devices) ==
  [mac \in {d.mac_address : d \in devices} |->
     CHOOSE d \in devices : d.mac_address = mac]

\* The entries committed when the scan is formatted: none; the first device;
\* the first device under another written form of its MAC and another host;
\* the fourth device at another host and an unknown device at the host of
\* the second.
ScanEntries ==
  { << >>,
    <<ConfiguredEntry("aabbcc112233", "10.0.0.5", None)>>,
    <<ConfiguredEntry("AA:BB:CC:11:22:33", "10.0.0.4", None)>>,
    <<ConfiguredEntry("d8a011000002", "10.0.0.9", None),
      ConfiguredEntry("d8a011000009", "10.0.0.6", None)>> }

\* A variant of format_discovered_devices without the test of the host.
FormatWithoutHostTest(discovered, current_unique_ids, current_hosts) ==
  [mac \in {m \in DOMAIN discovered : m \notin current_unique_ids} |->
     DEFAULT_NAME \o " " \o _short_mac(mac)
       \o " (" \o discovered[mac].ip_address \o ")"]

\* format_discovered_devices
format_discovered_devices(discovered, current_unique_ids, current_hosts) ==
  [mac \in {m \in DOMAIN discovered :
              /\ m \notin current_unique_ids
              /\ discovered[m].ip_address \notin current_hosts} |->
     DEFAULT_NAME \o " " \o _short_mac(mac)
       \o " (" \o discovered[mac].ip_address \o ")"]

\* The discovered devices are formatted for the selection, with the unique
\* ids and the hosts of the current entries.
FormatDiscoveredDevices ==
  /\ last' = [NoReturn EXCEPT
                !.handler = "format_discovered_devices",
                !.offered = format_discovered_devices(
                              discovered_devices,
                              {entries[i].unique_id : i \in DOMAIN entries},
                              {entries[i].host : i \in DOMAIN entries}),
                !.result = ReturnResult("dict")]
  /\ UNCHANGED <<entries, store, flows, onboarded, invocations, home, files,
                 discovered_devices,
               manager>>

InitScan ==
  /\ entries \in ScanEntries
  /\ store = NoStore
  /\ flows = [f \in Flows |-> IdleFlow]
  /\ onboarded = FALSE
  /\ last = NoReturn
  /\ invocations = 0
  /\ home = wizhome(None, None, None)
  /\ files = NoFiles
  /\ discovered_devices \in {DevicesByMac(ds) : ds \in SUBSET ScanDevices}
  /\ manager = NewManager

NextScan == FormatDiscoveredDevices

SpecScan == InitScan /\ [][NextScan]_vars

\* ------------------------------------------------------ the rename pass
\* What get_bulbtype of an entry's bulb can end with in the rename pass.
RenameOutcomes ==
  [kind : QueryFailures, bulbtype : {NoBulbType}]
    \cup [kind : {"ok"}, bulbtype : BulbTypes]

\* One iteration of the loop of async_update_existing_device_names on the
\* entry e: an entry with WIZ_HOME_LINK in its data and an entry without a
\* host are skipped; an exception of the bulb query or of the name resolver
\* is logged; the title is written when the resolved title differs.  did
\* tells what the iteration did, wrote whether async_update_entry was called.
RenameEntry(e, st, outcome) ==
  LET skip(did) == [entry |-> e, did |-> did, wrote |-> FALSE,
                    bulbtype |-> NoBulbType, old_title |-> e.title]
  IN IF e.wiz_home_link # None THEN skip("has_link")
     ELSE IF e.host \in {None, ""} THEN skip("no_host")
     ELSE IF outcome.kind # "ok" THEN skip(outcome.kind)
     ELSE LET new_title == build_full_bulb_name(st, outcome.bulbtype, e.unique_id)
          IN IF ~new_title.ok THEN skip("other_error")
             ELSE [entry |-> [e EXCEPT !.title = new_title.name],
                   did |-> "ok", wrote |-> (new_title.name # e.title),
                   bulbtype |-> outcome.bulbtype, old_title |-> e.title]

\* A variant of NextEntry that leaves the loop after a failed iteration.
NextEntryStopsAtFailure(i, did, n) ==
  IF did \in QueryFailures THEN n + 1 ELSE i + 1

\* The loop goes on with the next entry after each iteration (continue).
NextEntry(i, did, n) == i + 1

\* async_update_existing_device_names(self) is called on a flow.
StartRename(f) ==
  /\ Bounded
  /\ FreeSlot(flows, f)
  /\ Settle(f, World([NewFlow("async_update_existing_device_names") EXCEPT
                        !.pc = "renaming", !.index = 1], entries))
  /\ invocations' = invocations + 1
  /\ UNCHANGED <<store, onboarded, home, files, discovered_devices,
               manager>>

\* One iteration of the loop, or its end: the function returns None.
RenameNext(f) ==
  /\ flows[f].pc = "renaming"
  /\ LET i == flows[f].index
     IN IF i > Len(entries)
        THEN Settle(f, World([flows[f] EXCEPT !.pc = "idle",
                                              !.result = ReturnResult("None")],
                             entries))
        ELSE \E outcome \in RenameOutcomes :
               LET r == RenameEntry(entries[i], store, outcome)
               IN Settle(f, World([flows[f] EXCEPT
                                     !.index = NextEntry(i, r.did, Len(entries)),
                                     !.renames = Append(@, [r EXCEPT !.entry = i])],
                                  [entries EXCEPT ![i] = r.entry]))
  /\ UNCHANGED <<store, onboarded, invocations, home, files, discovered_devices,
               manager>>

\* The entries the pass finds: with a stale title, with a link of their own,
\* without a host.
RenameEntries ==
  { <<ConfiguredEntry("aabbcc112233", "10.0.0.5", None),
      ConfiguredEntry("a8bb50445566", "10.0.0.6", None)>>,
    <<ConfiguredEntry("d8a011000001", "10.0.0.8", GoodLink),
      ConfiguredEntry("aabbcc112233", "10.0.0.5", None)>>,
    <<ConfiguredEntry("d8a011000002", "", None),
      ConfiguredEntry("a8bb50445566", "10.0.0.6", None)>>,
    <<ConfiguredEntry("aabbcc112233", "10.0.0.5", None),
      ConfiguredEntry("d8a011000001", "10.0.0.8", GoodLink),
      ConfiguredEntry("a8bb50445566", "10.0.0.6", None)>> }

InitRename ==
  /\ entries \in RenameEntries
  /\ store \in {NoStore, StoredConfig(GoodLink, KitchenConfig)}
  /\ flows = [f \in Flows |-> IdleFlow]
  /\ onboarded = TRUE
  /\ last = NoReturn
  /\ invocations = 0
  /\ home = wizhome(None, None, None)
  /\ files = NoFiles
  /\ discovered_devices = << >>
  /\ manager = NewManager

NextRename ==
  \/ \E f \in Flows : StartRename(f)
  \/ \E f \in Flows : RenameNext(f)

SpecRename == InitRename /\ [][NextRename]_vars

\* ----------------------------------------------------- custom effects
\* A value that is no member of the enumeration ModifierType.
NoModifierType == 99

\* Entries of custom_effects in a home document.  modifier is what
\* ModifierType() is called with, 0 being the default of the code; steps
\* holds the length of each step list.
Sunset == [name |-> "Sunset", state |-> TRUE, modifier |-> 0, steps |-> <<13>>]
Plain == [name |-> "Plain", state |-> TRUE, modifier |-> 0, steps |-> <<5>>]
Night == [name |-> "Night", state |-> FALSE, modifier |-> 0, steps |-> <<13>>]
Unnamed == [name |-> "", state |-> TRUE, modifier |-> 0, steps |-> <<13>>]
Broken == [name |-> "Broken", state |-> TRUE, modifier |-> NoModifierType, steps |-> <<13>>]
EffectData == {Sunset, Plain, Night, Unnamed, Broken}

\* Home documents with up to MaxEffects custom effects.
EffectConfigs ==
  {[empty |-> FALSE, devices |-> << >>, rooms |-> << >>, custom_effects |-> es] :
     es \in UNION {[1..n -> EffectData] : n \in 0..MaxEffects}}

\* home_data.get("custom_effects", [])
CustomEffectsOf(home_data) ==
  IF "custom_effects" \in DOMAIN home_data THEN home_data.custom_effects ELSE << >>

\* The steps _create_preview_effect keeps: the lists of at least 13 items.
FullSteps(raw_steps) == {i \in DOMAIN raw_steps : raw_steps[i] >= 13}

\* CustomEffectManager._create_preview_effect: ModifierType(value) raises
\* ValueError for a value that is no member; step lists shorter than 13 are
\* dropped, and an effect left without steps gets one default step.
_create_preview_effect(effect_data) ==
  IF effect_data.modifier = NoModifierType
  THEN [raised |-> "ValueError", preview |-> [modifier |-> 0, steps |-> 0]]
  ELSE [raised |-> "",
        preview |-> [modifier |-> effect_data.modifier,
                     steps |-> IF FullSteps(effect_data.steps) = {} THEN 1
                               ELSE Cardinality(FullSteps(effect_data.steps))]]

\* The loop of CustomEffectManager._load_effects_from_data from its i-th
\* entry on: an entry without a name or with state false is passed over, an
\* entry whose preview raises is logged and passed over, any other entry is
\* appended to both lists.  The lists are never emptied.
RECURSIVE LoadEffects(_, _, _)
LoadEffects(m, effects, i) ==
  IF i > Len(effects) THEN m
  ELSE LET effect_data == effects[i]
           created == _create_preview_effect(effect_data)
       IN IF effect_data.name = "" \/ ~effect_data.state \/ created.raised # ""
          THEN LoadEffects(m, effects, i + 1)
          ELSE LoadEffects(
                 [_preview_effects |-> Append(m._preview_effects, created.preview),
                  _effect_names |-> Append(m._effect_names, effect_data.name)],
                 effects, i + 1)

\* CustomEffectManager._load_effects_from_data
_load_effects_from_data(m, home_data) ==
  LoadEffects(m, CustomEffectsOf(home_data), 1)

\* CustomEffectManager.async_load_effects: nothing is loaded from no config
\* and from the empty object.
async_load_effects(m, st) ==
  LET config_data == async_load_config(st)
  IN IF Truthy(config_data) THEN _load_effects_from_data(m, config_data.config)
     ELSE m

\* CustomEffectManager.get_effect_names: a copy of the list.
get_effect_names(m) == m._effect_names

\* CustomEffectManager.get_preview_effects: a copy of the list.
get_preview_effects(m) == m._preview_effects

LoadsBounded == invocations < MaxLoads

\* async_load_effects is called on the manager.
AsyncLoadEffects ==
  /\ LoadsBounded
  /\ manager' = async_load_effects(manager, store)
  /\ last' = [NoReturn EXCEPT !.handler = "async_load_effects",
                              !.result = ReturnResult("None")]
  /\ invocations' = invocations + 1
  /\ UNCHANGED <<entries, store, flows, onboarded, home, files,
               discovered_devices>>

\* The two lists are read.
GetEffects ==
  /\ LoadsBounded
  /\ last' = [NoReturn EXCEPT !.handler = "get_effect_names",
                              !.offered = get_effect_names(manager),
                              !.renames = get_preview_effects(manager),
                              !.result = ReturnResult("list")]
  /\ invocations' = invocations + 1
  /\ UNCHANGED <<entries, store, flows, onboarded, home, files,
               discovered_devices, manager>>

InitEffects ==
  /\ entries = <<>>
  /\ store \in {NoStore, StoredConfig(GoodLink, EmptyConfig),
                StoredConfig(GoodLink, KitchenConfig)}
              \cup {StoredConfig(GoodLink, c) : c \in EffectConfigs}
  /\ flows = [f \in Flows |-> IdleFlow]
  /\ onboarded = TRUE
  /\ last = NoReturn
  /\ invocations = 0
  /\ home = wizhome(None, None, None)
  /\ files = NoFiles
  /\ discovered_devices = << >>
  /\ manager = NewManager

NextEffects == AsyncLoadEffects \/ GetEffects

SpecEffects == InitEffects /\ [][NextEffects]_vars

\* ------------------------------------------------------------ wizhome
\* The exception classes of pywizlight that derive from WizLightError, as
\* test_beforeJSONParsing expects them of parseJSON.
WizLightErrorFamily == {"WizLightError", "WizHomeError", "WizHomeParsingError"}

RaisedResult(exception) == [ExceptionResult EXCEPT !.reason = exception]

\* A variant of ToMap that stores the first record only.
ToMapOfFirstRecord(records, key) ==
  [k \in {records[i][key] : i \in DOMAIN records \cap {1}} |-> records[1]]

\* The dict a loop of parseJSON builds: every record is stored under its key,
\* a later record replacing an earlier one with the same key.
ToMap(records, key) ==
  [k \in {records[i][key] : i \in DOMAIN records} |->
     records[CHOOSE i \in DOMAIN records :
               /\ records[i][key] = k
               /\ \A j \in DOMAIN records : records[j][key] = k => j <= i]]

\* A variant of parseJSON without the test for jsonHome == None: json.loads
\* is called with None and raises TypeError.
ParseJSONWithoutNoneTest(h) ==
  CASE h.jsonHome.kind = "none" -> [home |-> h, result |-> RaisedResult("TypeError")]
    [] h.jsonHome.kind = "garbage" ->
         [home |-> h, result |-> RaisedResult("WizHomeParsingError")]
    [] h.jsonHome.kind = "json" /\ ~h.jsonHome.doc.header ->
         [home |-> h, result |-> RaisedResult("KeyError")]
    [] OTHER ->
         LET hd == h.jsonHome.doc
         IN [home |-> [h EXCEPT !.homeID = hd.home_id, !.name = hd.name,
                                !.creation_date = hd.creation_date,
                                !.update_date = hd.update_date,
                                !.udp_signing_key = hd.udp_signing_key,
                                !.rooms = ToMap(hd.rooms, "room_id"),
                                !.devices = ToMap(hd.devices, "mac_address"),
                                !.groups = ToMap(hd.groups, "group_id")],
             result |-> ReturnResult("None")]

\* wizhome.parseJSON: no content and a content that json.loads rejects raise
\* WizHomeParsingError; a structure without home_id raises KeyError at the
\* first key read; any other structure sets the identity fields and rebuilds
\* the three dicts.
parseJSON(h) ==
  CASE h.jsonHome.kind = "none" ->
         [home |-> h, result |-> RaisedResult("WizHomeParsingError")]
    [] h.jsonHome.kind = "garbage" ->
         [home |-> h, result |-> RaisedResult("WizHomeParsingError")]
    [] h.jsonHome.kind = "json" /\ ~h.jsonHome.doc.header ->
         [home |-> h, result |-> RaisedResult("KeyError")]
    [] OTHER ->
         LET hd == h.jsonHome.doc
         IN [home |-> [h EXCEPT !.homeID = hd.home_id, !.name = hd.name,
                                !.creation_date = hd.creation_date,
                                !.update_date = hd.update_date,
                                !.udp_signing_key = hd.udp_signing_key,
                                !.rooms = ToMap(hd.rooms, "room_id"),
                                !.devices = ToMap(hd.devices, "mac_address"),
                                !.groups = ToMap(hd.groups, "group_id")],
             result |-> ReturnResult("None")]

\* A variant of fetchJSONContent that tries the cloud URL before the named
\* file.
FetchPrefersCloudURL(h, fs, response) ==
  IF h.cloudURL # None
  THEN IF response.status = "raised"
       THEN [home |-> h, files |-> fs, result |-> RaisedResult("RequestException")]
       ELSE [home |-> IF response.status = "200"
                      THEN [h EXCEPT !.jsonHome = response.text] ELSE h,
             files |-> [fs EXCEPT ![_DEFAULT_HOME_STRUCTURE_FILEPATH] = response.text],
             result |-> ReturnResult(response.status)]
  ELSE IF h.fileName # None
  THEN IF fs[h.fileName].kind = "none"
       THEN [home |-> h, files |-> fs, result |-> RaisedResult("FileNotFoundError")]
       ELSE [home |-> [h EXCEPT !.jsonHome = fs[h.fileName]], files |-> fs,
             result |-> ReturnResult("200")]
  ELSE IF fs[_DEFAULT_HOME_STRUCTURE_FILEPATH].kind # "none"
  THEN [home |-> [h EXCEPT !.jsonHome = fs[_DEFAULT_HOME_STRUCTURE_FILEPATH]],
        files |-> fs, result |-> ReturnResult("200")]
  ELSE [home |-> h, files |-> fs, result |-> RaisedResult("WizHomeError")]

\* wizhome.fetchJSONContent: the named file, else the cloud URL, else the
\* default file, else WizHomeError.  open() of a file that does not exist
\* raises FileNotFoundError; the cloud branch writes the response text to
\* home_structure.json whatever the status is.
fetchJSONContent(h, fs, response) ==
  IF h.fileName # None
  THEN IF fs[h.fileName].kind = "none"
       THEN [home |-> h, files |-> fs, result |-> RaisedResult("FileNotFoundError")]
       ELSE [home |-> [h EXCEPT !.jsonHome = fs[h.fileName]], files |-> fs,
             result |-> ReturnResult("200")]
  ELSE IF h.cloudURL # None
  THEN IF response.status = "raised"
       THEN [home |-> h, files |-> fs, result |-> RaisedResult("RequestException")]
       ELSE [home |-> IF response.status = "200"
                      THEN [h EXCEPT !.jsonHome = response.text] ELSE h,
             files |-> [fs EXCEPT ![_DEFAULT_HOME_STRUCTURE_FILEPATH] = response.text],
             result |-> ReturnResult(response.status)]
  ELSE IF fs[_DEFAULT_HOME_STRUCTURE_FILEPATH].kind # "none"
  THEN [home |-> [h EXCEPT !.jsonHome = fs[_DEFAULT_HOME_STRUCTURE_FILEPATH]],
        files |-> fs, result |-> ReturnResult("200")]
  ELSE [home |-> h, files |-> fs, result |-> RaisedResult("WizHomeError")]

HomeBounded == invocations < MaxHomeCalls

\* A caller fetches the content: wh.fetchJSONContent(loop).
FetchJSONContent ==
  /\ HomeBounded
  /\ \E response \in Responses :
       LET r == fetchJSONContent(home, files, response)
       IN /\ home' = r.home
          /\ files' = r.files
          /\ last' = [NoReturn EXCEPT !.handler = "fetchJSONContent",
                                      !.result = r.result]
  /\ invocations' = invocations + 1
  /\ UNCHANGED <<entries, store, flows, onboarded, discovered_devices,
               manager>>

\* A caller parses the content: wh.parseJSON().
ParseJSON ==
  /\ HomeBounded
  /\ LET r == parseJSON(home)
     IN /\ home' = r.home
        /\ last' = [NoReturn EXCEPT !.handler = "parseJSON", !.result = r.result]
  /\ invocations' = invocations + 1
  /\ UNCHANGED <<entries, store, flows, onboarded, files, discovered_devices,
               manager>>

\* A wizhome object as its constructor leaves it, for each choice of a file
\* name and a cloud URL, and the files that exist when it is created.
InitHome ==
  /\ entries = <<>>
  /\ store = NoStore
  /\ flows = [f \in Flows |-> IdleFlow]
  /\ onboarded = FALSE
  /\ last = NoReturn
  /\ invocations = 0
  /\ home \in {wizhome(None, u, n) : u \in {None, CloudURL}, n \in {None} \cup FileNames}
  /\ files \in [FileNames -> {NoText} \cup Texts]
  /\ discovered_devices = << >>
  /\ manager = NewManager

NextHome == FetchJSONContent \/ ParseJSON

SpecHome == InitHome /\ [][NextHome]_vars

\* ------------------------------------------------------------- properties
\* The MAC a unique id stands for: letter case and colons do not count.
NormalizedMac(unique_id) == Lower(StripColons(unique_id))

\* The entries that carry a unique id.
EntriesOf(es, unique_id) == {i \in DOMAIN es : es[i].unique_id = unique_id}

\* The last step was the return of the binding commit: the bulb queries of the
\* invocation had succeeded, and async_create_bulb_entry ended it.
CommitAborted(ret) ==
  ret.query = "ok" /\ ret.result = AbortResult("already_configured")
CommitCreated(ret) ==
  ret.query = "ok" /\ ret.result = CreateEntryResult

\* C1: the committed entries hold at most one entry per MAC, where MAC strings
\* that differ only in letter case or in colons are the same MAC.
C1_OneEntryPerNormalizedMac ==
  \A i, j \in DOMAIN entries :
    NormalizedMac(entries[i].unique_id) = NormalizedMac(entries[j].unique_id) => i = j

\* C2: a binding commit for a MAC leaves exactly one entry for that MAC, with
\* the host of this commit; a commit for a MAC that has an entry aborts the
\* flow, creates no entry, and changes nothing but that entry's host.
C2_RebindUpdatesHostOnly ==
  [][/\ CommitCreated(last') \/ CommitAborted(last') =>
         /\ Cardinality(EntriesOf(entries', last'.unique_id)) = 1
         /\ HostOf(entries', last'.unique_id) = last'.host
     /\ CommitAborted(last') =>
         /\ Len(entries') = Len(entries)
         /\ EntriesOf(entries, last'.unique_id) # {}
         /\ \A i \in DOMAIN entries :
              entries'[i] = IF entries[i].unique_id = last'.unique_id
                            THEN [entries[i] EXCEPT !.host = last'.host]
                            ELSE entries[i]]_vars

\* C2's case: the second commit for a MAC came with another host than the
\* entry had, and the entry has the new host.
C2_Witness ==
  /\ CommitAborted(last)
  /\ last.old_host \notin {None, last.host}
  /\ HostOf(entries, last.unique_id) = last.host

HintAborted(ret) ==
  /\ ret.handler = "discovery" /\ ~ret.called
  /\ ret.result = AbortResult("already_configured")

PassiveReturn(ret) == ret.handler \in {"discovery", "discovery_confirm"}

\* C5: on the passive path, a validator call that returns any error ends the
\* flow as aborted with cannot_connect; the step changes no entry and shows
\* no form.
C5_PassiveErrorAborts ==
  PassiveReturn(last) /\ last.called
    /\ (last.query \in QueryFailures \/ last.verrors # NoErrors) =>
      /\ last.result = AbortResult("cannot_connect")
      /\ ~last.changed
      /\ flows[last.flow].pc = "idle"

\* C5's case: the user confirmed the discovered device and the bulb timed out.
C5_Witness ==
  /\ last.handler = "discovery_confirm" /\ last.query = "timeout"
  /\ last.result = AbortResult("cannot_connect")

\* The error code the user form shows for a failure of the bulb queries.
NetworkErrorCode(query) ==
  CASE query = "timeout"          -> "bulb_time_out"
    [] query = "connection_error" -> "cannot_connect"
    [] OTHER                      -> "unknown"

\* C6: in the user step, a host that is an IP literal and bulb queries that
\* fail bring the user form back with the failure's code as base error; the
\* flow is not aborted and the step changes no entry.
C6_UserNetworkErrorShowsForm ==
  last.handler = "user" /\ is_ip_address(last.host) /\ last.query \in QueryFailures =>
    /\ last.result = FormResult("user", [host |-> "", base |-> NetworkErrorCode(last.query)])
    /\ ~last.changed
    /\ flows[last.flow].pc = "form" /\ flows[last.flow].step_id = "user"

\* C6's case: the bulb at the submitted address timed out.
C6_Witness ==
  /\ last.handler = "user" /\ last.query = "timeout"
  /\ last.result.type = "form" /\ last.result.errors.base = "bulb_time_out"

\* C7 as stated: a hint with no user input is validated at once when the
\* environment is onboarded, and shows the discovery_confirm form first
\* when it is not.
C7_OnboardedSkipsForm ==
  /\ last.handler = "discovery" /\ last.result.type = "form" => ~onboarded
  /\ \A f \in Flows :
       flows[f].handler = "discovery" /\ flows[f].pc = "validating" => onboarded

\* C7: a hint with no user input that passes the unique-id checks is
\* validated at once when the environment is not onboarded, without the
\* discovery_confirm form; when it is onboarded the form is shown first and
\* no validation is made until an invocation carries the submission.
C7_NotOnboardedSkipsForm ==
  /\ last.handler = "discovery" /\ last.result.type = "form" =>
       /\ onboarded /\ ~last.called
       /\ last.result = FormResult("discovery_confirm", NoErrors)
  /\ last.handler = "discovery" /\ last.called => ~last.is_onboarded
  /\ \A f \in Flows :
       flows[f].pc = "validating" /\ flows[f].source = "discovery" =>
         IF flows[f].handler = "discovery"
         THEN ~flows[f].is_onboarded /\ ~flows[f].has_input
         ELSE flows[f].handler = "discovery_confirm" /\ flows[f].has_input

\* C7's case: the environment is onboarded and the hint shows the form.
C7_Witness ==
  /\ onboarded /\ last.handler = "discovery" /\ ~last.called
  /\ last.result = FormResult("discovery_confirm", NoErrors)
  /\ flows[last.flow].pc = "form"

C9_NonIpIsNoIp ==
  last.called /\ ~is_ip_address(last.host) =>
    /\ last.verrors = [host |-> "no_ip", base |-> ""]
    /\ ~last.queried /\ last.query = "none"

\* C9: every non-empty host that is no IP literal gets no_ip on the host
\* field and the empty host gets host_required; in both cases no bulb handle
\* is created and no query is issued.
C9_NonIpIsRejectedUnqueried ==
  /\ last.called /\ ~is_ip_address(last.host) =>
       /\ last.verrors = [host |-> IF last.host = "" THEN "host_required" ELSE "no_ip",
                          base |-> ""]
       /\ ~last.queried /\ last.query = "none"
  /\ \A f \in Flows :
       flows[f].queried \/ flows[f].pc = "validating" => is_ip_address(flows[f].host)

\* C9's case: a host name was submitted and got no_ip.
C9_Witness ==
  /\ last.called /\ last.host = "bulb.local" /\ ~last.queried
  /\ last.verrors = [host |-> "no_ip", base |-> ""]

\* The last step was the return of async_step_user for a submission with an
\* empty host.
EmptyHostSubmitted(ret) ==
  ret.handler = "user" /\ ret.has_input /\ ret.host = ""

\* C10 as stated: a submission with an empty host does not bring the user
\* form back with an error.
C10_EmptyHostScans ==
  EmptyHostSubmitted(last) =>
    ~(last.result.type = "form" /\ last.result.step_id = "user"
        /\ last.result.errors # NoErrors)

\* C10: a submission with an empty host brings the user form back with an
\* error: host_required on the host field when the validator was reached,
\* invalid_link when the link test or the download of a first setup failed;
\* the flow is not aborted, no bulb is queried and no entry is changed.
C10_EmptyHostShowsError ==
  EmptyHostSubmitted(last) =>
    /\ last.result = FormResult("user",
          IF last.called THEN [host |-> "host_required", base |-> ""]
          ELSE [host |-> "", base |-> "invalid_link"])
    /\ flows[last.flow].pc = "form" /\ flows[last.flow].step_id = "user"
    /\ ~last.queried /\ ~last.changed

\* C10's case: an empty host was submitted and host_required came back.
C10_Witness ==
  /\ EmptyHostSubmitted(last) /\ last.called
  /\ last.result = FormResult("user", [host |-> "host_required", base |-> ""])

\* The last step was the return of the confirm step of a flow that holds no
\* discovered device.
ConfirmedNoDevice(ret) ==
  ret.handler = "discovery_confirm" /\ ret.source = "discovery_confirm"

C12_PrefixCheckedByEveryImport ==
  /\ \A f \in Flows : flows[f].requested => LinkAllowed(flows[f].link)
  /\ last.requested \/ last.stored => LinkAllowed(last.link)
  /\ store.present => LinkAllowed(store.url)

\* C13: a validator call that created a bulb handle has closed it when it
\* returns, whether the queries succeeded or failed.
C13_HandleReleased ==
  last.called /\ last.queried => last.bulb = "closed"

\* The error code the validator is to give a failure of the bulb queries: a
\* connection or socket failure is cannot_connect, a timeout bulb_time_out,
\* anything else unknown.
MappedErrorCode(query) ==
  CASE query \in {"connection_error", "os_error"} -> "cannot_connect"
    [] query = "timeout"                            -> "bulb_time_out"
    [] OTHER                                        -> "unknown"

\* C14: every failure of the bulb queries comes back from the validator as
\* its mapped error code, and none leaves it as an exception.
C14_FailuresMapped ==
  last.called /\ last.query \in QueryFailures =>
    /\ last.verrors = [host |-> "", base |-> MappedErrorCode(last.query)]
    /\ last.result.type # "exception"

\* C15: a user step whose validation succeeded for a MAC that has no entry
\* ends with exactly one entry for the device: its unique id is the MAC in
\* lower case without colons, its host the submitted host, its title the
\* resolved name for the bulb type, the MAC and the stored home config.
C15_UserCommitsNormalizedEntry ==
  last.handler = "user" /\ CommitCreated(last) =>
    /\ Cardinality(EntriesOf(entries, NormalizedMac(last.mac))) = 1
    /\ \A i \in EntriesOf(entries, NormalizedMac(last.mac)) :
         /\ entries[i].host = last.host
         /\ entries[i].title = build_full_bulb_name(store, last.bulbtype, last.mac).name

\* The bulb type object the validator returned, whatever the step made of it.
BulbTypeObject(bt) == [bt EXCEPT !.kind = "BulbType"]

\* C16: a passive flow whose validation succeeded for a MAC that has no entry
\* ends with an entry created: its host is the hinted address and its title
\* the one the user path gives the same bulb type and MAC.
C16_PassiveCommitsLikeUser ==
  PassiveReturn(last) /\ last.query = "ok" /\ ~CommitAborted(last) =>
    /\ last.result = CreateEntryResult
    /\ \E i \in EntriesOf(entries, last.unique_id) :
         /\ entries[i].host = last.host
         /\ entries[i].title =
              build_full_bulb_name(store, BulbTypeObject(last.bulbtype), last.mac).name

\* The device record of a home document that the name resolver is to find
\* for a MAC: the first whose MAC is the same but for letter case; 0 if none.
MatchedDevice(st, mac) ==
  IF ~st.present THEN 0
  ELSE LET hits == {i \in DOMAIN st.config.devices :
                      Lower(st.config.devices[i].mac_address) = Lower(mac)}
       IN IF hits = {} THEN 0 ELSE CHOOSE i \in hits : \A j \in hits : i <= j

\* The rooms of the document that carry the room_id of the device record.
RoomsOf(st, d) ==
  {r \in DOMAIN st.config.rooms :
     st.config.rooms[r].room_id = st.config.devices[d].room_id}

\* The name C17 gives a bulb whose base name is base.
ResolvedName(st, mac, base) ==
  LET d == MatchedDevice(st, mac)
  IN IF d = 0 THEN base
     ELSE IF RoomsOf(st, d) # {}
     THEN LET r == CHOOSE r \in RoomsOf(st, d) : \A q \in RoomsOf(st, d) : r <= q
          IN st.config.devices[d].name \o " (" \o st.config.rooms[r].name \o ") ["
               \o base \o "]"
     ELSE st.config.devices[d].name \o " [" \o base \o "]"

\* C17: the resolved name is "<device name> (<room name>) [<base name>]" when
\* the document has a record for the MAC whose room_id is that of a room of
\* the document, "<device name> [<base name>]" when the record's room_id is
\* that of no room, and the base name when there is no record or no document.
C17_ResolvedName ==
  last.result = CreateEntryResult =>
    \A i \in EntriesOf(entries, last.unique_id) :
      entries[i].title =
        ResolvedName(store, last.mac, name_from_bulb_type_and_mac(last.bulbtype, last.mac).name)

\* s ends with p.
EndsWith(s, p) == Len(s) >= Len(p) /\ SubSeq(s, Len(s) - Len(p) + 1, Len(s)) = p

\* The description C18 gives a bulb type.
Description(bt) ==
  IF bt.bulb_type = "RGB"
  THEN (IF bt.white_channels = 2 THEN "RGBWW Tunable" ELSE "RGBW Tunable")
  ELSE "Random bulb lol"

\* The base name C18 gives a bulb type and a MAC.
BaseName(bt, mac) == "WiZ " \o Description(bt) \o " " \o _short_mac(mac)

\* The document has a record for the MAC, and the record has a name.
NamedDevice(st, mac) ==
  /\ MatchedDevice(st, mac) # 0
  /\ st.config.devices[MatchedDevice(st, mac)].name # ""

\* C18: the base name is "WiZ <description> <short id>", the description
\* being "RGBWW Tunable" for an RGB bulb with two white channels, "RGBW
\* Tunable" for any other RGB bulb and one fixed label for every other bulb
\* class; naming a bulb type object of any class does not fail.
C18_BaseName ==
  last.flow # 0 /\ last.bulbtype.kind = "BulbType" =>
    /\ last.result = CreateEntryResult
    /\ \A i \in EntriesOf(entries, last.unique_id) :
         IF ~NamedDevice(store, last.mac)
         THEN entries[i].title = BaseName(last.bulbtype, last.mac)
         ELSE EndsWith(entries[i].title,
                       " [" \o BaseName(last.bulbtype, last.mac) \o "]")

\* C18's case: a bulb of a class that is not RGB got the fixed label.
C18_Witness ==
  /\ last.result = CreateEntryResult /\ last.bulbtype.bulb_type = "DW"
  /\ \E i \in DOMAIN entries : entries[i].title = "WiZ Random bulb lol 4D5E6F"

UpperHexChars == "0123456789ABCDEF"

IsUpperHex(s) ==
  \A i \in 1..Len(s) : \E j \in 1..Len(UpperHexChars) :
    CharAt(s, i) = CharAt(UpperHexChars, j)

\* The short identifier a title ends with: the title is either the base name
\* or "<device> [<base name>]".
ShortIdIn(title) ==
  IF EndsWith(title, "]")
  THEN SubSeq(title, Len(title) - 6, Len(title) - 1)
  ELSE LastChars(title, 6)

\* C19: the short identifier in a name is exactly 6 upper-case hexadecimal
\* characters, the last 6 hex digits of the MAC, and every written form of
\* the same MAC (upper or lower case, with or without colons) gives the
\* same one.
C19_ShortId ==
  last.flow # 0 /\ last.result = CreateEntryResult =>
    \A i \in EntriesOf(entries, last.unique_id) :
      LET sid == ShortIdIn(entries[i].title)
      IN /\ Len(sid) = 6
         /\ IsUpperHex(sid)
         /\ sid = Upper(LastChars(NormalizedMac(last.mac), 6))
         /\ \A m \in NamingMacs :
              NormalizedMac(m) = NormalizedMac(last.mac) => _short_mac(m) = sid

\* C19's case: a MAC written in lower case without colons was named.
C19_Witness ==
  /\ last.result = CreateEntryResult /\ last.mac = "a8bb504d5e6f"
  /\ \E i \in DOMAIN entries : ShortIdIn(entries[i].title) = "4D5E6F"

\* The links the entries before the last one carry.
PriorLinks ==
  {entries[i].wiz_home_link : i \in 1..(Len(entries) - 1)} \ {None}

\* C20: a newly committed entry carries the home link of a prior entry when
\* some prior entry carries one, and carries none when no prior entry does.
C20_LinkCarriedForward ==
  last.result = CreateEntryResult =>
    /\ entries[Len(entries)].unique_id = last.unique_id
    /\ IF PriorLinks # {}
       THEN entries[Len(entries)].wiz_home_link \in PriorLinks
       ELSE entries[Len(entries)].wiz_home_link = None

\* C20's case: an entry was committed next to one that carries a link, and
\* carries that link.
C20_Witness ==
  /\ last.result = CreateEntryResult
  /\ GoodLink \in PriorLinks
  /\ entries[Len(entries)].wiz_home_link = GoodLink

\* The download of the last return ended with a data error: a body that is
\* not JSON, or a JSON body without the fields of a home document.
MalformedBody(ret) == ret.download.kind = "json_error"
IncompleteBody(ret) == ret.download.kind = "ok" /\ ret.download.config.empty

InvalidLinkForm == FormResult("user", [host |-> "", base |-> "invalid_link"])

\* C21 as stated: a user submission whose download ended with a data error
\* is not answered with a blocking error; it goes on to the bulb validation.
C21_DataErrorNeverBlocks ==
  last.handler = "user" /\ (MalformedBody(last) \/ IncompleteBody(last)) =>
    last.called /\ last.result # InvalidLinkForm

\* C21: a user submission whose downloaded body lacks the fields of a home
\* document goes on to the bulb validation and is not answered with
\* invalid_link; a submission whose body is malformed JSON is answered with
\* the form error invalid_link, without bulb validation and without a write
\* to the entries.
C21_DataErrorByKind ==
  last.handler = "user" =>
    /\ IncompleteBody(last) => last.called /\ last.result # InvalidLinkForm
    /\ MalformedBody(last) =>
         last.result = InvalidLinkForm /\ ~last.called /\ ~last.changed

\* C21's case: a malformed body was answered with invalid_link.
C21_Witness ==
  last.handler = "user" /\ MalformedBody(last) /\ last.result = InvalidLinkForm

\* The title an entry gets when it is resolved against a stored document:
\* the full name of its bulb (a device keeps its type) and its unique id.
ResolvedTitle(st, e) ==
  build_full_bulb_name(st, TypeOfDevice(e.unique_id), e.unique_id).name

\* C22: when the download of a user submission has succeeded and the home
\* document is stored, every committed entry without a home link of its own
\* carries the title resolved against the stored document.
C22_ImportRenamesEntries ==
  [][\A f \in Flows :
       flows[f].pc = "download" /\ flows'[f].pc = "validating" /\ flows'[f].stored
       => \A i \in DOMAIN entries' :
            entries'[i].wiz_home_link = None
            => entries'[i].title = ResolvedTitle(store', entries'[i])]_vars

\* The step is an import or a clear of the home config: the download of a
\* user submission ends, or a storage-manager operation returns.
StorageOperations ==
  {"async_download_and_store_config", "async_load_local_config_and_store",
   "async_clear_config"}

ImportOrClearStep ==
  \/ \E f \in Flows : flows[f].pc = "download" /\ flows'[f] # flows[f]
  \/ last'.handler \in StorageOperations

\* C23: the home-config store changes only in an import or a clear; the
\* steps of bulb validation, name resolution, discovery handling and entry
\* commit leave it as it is.
C23_StoreChangedOnlyByImportOrClear ==
  [][store' # store => ImportOrClearStep]_vars

\* C23's case: a home config is stored, and a flow has validated a bulb,
\* resolved its name and committed its entry.
C23_Witness ==
  /\ store = StoredConfig(GoodLink, KitchenConfig)
  /\ last.result = CreateEntryResult /\ last.called /\ last.wrote = "create"

\* The step is a call of the wizhome method.
HomeCall(method) == invocations' = invocations + 1 /\ last'.handler = method

\* C24: parseJSON on a wizhome whose jsonHome is None raises
\* WizHomeParsingError, an exception of the WizLightError family, and leaves
\* the rooms, devices and groups maps and the identity fields as they were.
C24_ParseWithoutContent ==
  [][HomeCall("parseJSON") /\ home.jsonHome = NoText =>
       /\ last'.result = RaisedResult("WizHomeParsingError")
       /\ last'.result.reason \in WizLightErrorFamily
       /\ home'.rooms = home.rooms /\ home'.devices = home.devices
       /\ home'.groups = home.groups
       /\ home'.homeID = home.homeID /\ home'.name = home.name
       /\ home'.creation_date = home.creation_date
       /\ home'.update_date = home.update_date
       /\ home'.udp_signing_key = home.udp_signing_key]_vars

\* C24's case: parseJSON was called before any content was fetched.
C24_Witness ==
  /\ last.handler = "parseJSON" /\ home.jsonHome = NoText
  /\ last.result.type = "exception"

\* C25: for a wizhome with a file name whose file exists, fetchJSONContent
\* returns 200 and sets jsonHome to that file's content, whatever cloud URL
\* is configured and whatever the default file holds; a return of 200 comes
\* with jsonHome set by the call to the content of the source it used; with
\* no file name, no URL and no default file the call raises WizHomeError and
\* jsonHome stays as it was.
C25_FetchFromFile ==
  [][HomeCall("fetchJSONContent") =>
       /\ home.fileName # None /\ files[home.fileName] # NoText =>
            /\ last'.result = ReturnResult("200")
            /\ home'.jsonHome = files[home.fileName]
       /\ last'.result = ReturnResult("200") =>
            /\ home'.jsonHome # NoText
            /\ home'.jsonHome =
                 IF home.fileName # None THEN files[home.fileName]
                 ELSE files'[_DEFAULT_HOME_STRUCTURE_FILEPATH]
       /\ ( /\ home.fileName = None /\ home.cloudURL = None
            /\ files[_DEFAULT_HOME_STRUCTURE_FILEPATH] = NoText ) =>
            /\ last'.result = RaisedResult("WizHomeError")
            /\ home'.jsonHome = home.jsonHome]_vars

\* C25's case: a wizhome with a file name, a cloud URL and a default file of
\* another content fetched the content of its named file.
C25_Witness ==
  /\ last.handler = "fetchJSONContent" /\ last.result = ReturnResult("200")
  /\ home.fileName = "my_home.json" /\ home.cloudURL = CloudURL
  /\ home.jsonHome = files["my_home.json"]
  /\ files[_DEFAULT_HOME_STRUCTURE_FILEPATH] \notin {NoText, files["my_home.json"]}

\* The values a list of records has under a key, and the records that carry
\* a value.
KeysOf(records, key) == {records[i][key] : i \in DOMAIN records}
RecordsOf(records, key, k) == {records[i] : i \in {j \in DOMAIN records : records[j][key] = k}}

\* The map holds exactly the records of the list, each under its key.
MapsExactly(map, records, key) ==
  /\ DOMAIN map = KeysOf(records, key)
  /\ \A k \in DOMAIN map : map[k] \in RecordsOf(records, key, k)

\* The content of the wizhome is the serialization of a home document.
HoldsHomeDocument(h) == h.jsonHome.kind = "json" /\ h.jsonHome.doc.header

ImportFailures == DownloadFailures \cup LocalFailures

\* C27: an import of the home config that fails returns failure to its
\* caller (False from a storage-manager import; the user step answers the
\* False of its download with the form error invalid_link), raises nothing,
\* and leaves the home-config store as it was before the call.
C27_FailedImportKeepsStore ==
  [][last'.download.kind \in ImportFailures =>
       /\ store' = store
       /\ last'.result \in {ReturnResult("False"), InvalidLinkForm}]_vars

\* C27's case: a storage-manager import failed on a body that is not JSON
\* while a home config was stored.
C27_Witness ==
  /\ last.handler = "async_download_and_store_config"
  /\ last.download.kind = "json_error"
  /\ last.result = ReturnResult("False")
  /\ store.present

\* The unique ids and the hosts of the committed entries.
CommittedIds == {entries[i].unique_id : i \in DOMAIN entries}
CommittedHosts == {entries[i].host : i \in DOMAIN entries}

\* C28: the devices offered for selection are exactly the discovered devices
\* whose MAC is no committed unique id and whose IP is no committed host.
C28_OfferedDevices ==
  last.handler = "format_discovered_devices" =>
    \A mac \in DOMAIN discovered_devices :
      mac \in DOMAIN last.offered <=>
        /\ mac \notin CommittedIds
        /\ discovered_devices[mac].ip_address \notin CommittedHosts

\* C28's case: of four discovered devices, one committed by MAC and one
\* committed by host are left out, and the other two are offered.
C28_Witness ==
  /\ last.handler = "format_discovered_devices"
  /\ DOMAIN discovered_devices =
       {"aabbcc112233", "a8bb50445566", "d8a011000001", "d8a011000002"}
  /\ CommittedIds = {"d8a011000002", "d8a011000009"}
  /\ DOMAIN last.offered = {"aabbcc112233", "d8a011000001"}

\* The step is one iteration of the rename pass of flow f.
RenameIteration(f) ==
  /\ flows[f].pc = "renaming" /\ flows[f].index <= Len(entries)
  /\ flows'[f] # flows[f]

\* What the iteration of the step recorded.
Renamed(f) == flows'[f].renames[Len(flows'[f].renames)]

LinkRejected(ret) ==
  /\ ret.handler = "user" /\ ret.has_input /\ ret.first_setup
  /\ \/ ~LinkAllowed(ret.link)
     \/ ret.download.kind \in DownloadFailures

\* C30: on a first setup, a user submission whose home link is absent, is
\* not allow-listed or fails to download creates no bulb handle, queries no
\* bulb and writes no entry, whatever the host; it is answered with the user
\* form and the base error invalid_link.
C30_NoLinkNoBinding ==
  LinkRejected(last) =>
    /\ ~last.called /\ ~last.queried /\ last.bulb = "none"
    /\ ~last.changed /\ last.wrote = "none"
    /\ last.result = InvalidLinkForm

\* C30's case: a submission with a reachable host and a link that is not
\* allow-listed was answered with invalid_link.
C30_Witness ==
  /\ LinkRejected(last) /\ last.link = "http://evil.example/x"
  /\ last.host = "10.0.0.5" /\ last.result = InvalidLinkForm

\* A non-empty home config is stored.
HoldsConfig(st) == st.present /\ ~st.config.empty

\* The step is the return of flow f's download of the home config.
DownloadEnds(f) == flows[f].pc = "download" /\ flows'[f].pc # "download"

\* How the download that ended in the step ended: the flow carries it while
\* the handler is suspended, the history once the handler has returned.
Downloaded(f) ==
  IF flows'[f].pc \in {"validating", "naming"} THEN flows'[f].download
  ELSE last'.download

\* The step is an invocation of async_step_user on flow f: a new user flow,
\* or a submission of the user form.
UserStepStarts(f) ==
  \/ /\ flows[f].pc = "idle" /\ flows'[f].pc # "idle"
     /\ flows'[f].source = "user"
  \/ /\ flows[f].pc = "form" /\ flows[f].step_id = "user"
     /\ invocations' = invocations + 1
     /\ last'.flow = f \/ flows'[f].pc \in {"download", "validating", "naming"}

\* The step is a later part of an invocation of async_step_user on flow f:
\* the return of the validator or of the name resolver.
UserStepContinues(f) ==
  /\ flows[f].handler = "user"
  /\ flows[f].pc \in {"validating", "naming"}
  /\ flows'[f] # flows[f]

\* C31: in a user submission on a first setup the home config is in the
\* store in the very step its download succeeds, with no bulb queried and no
\* entry written yet, and the validation and the commit that follow leave the
\* store alone; a failed download leaves the store alone.  A user step that
\* starts while a non-empty config is stored reads not-first-setup, shows a
\* form without the link field, issues no download and leaves the store
\* alone, and only an invocation that read first setup ever downloads.
C31_StoredBeforeValidation ==
  /\ [](\A f \in Flows : flows[f].pc = "download" => flows[f].first_setup)
  /\ [][\A f \in Flows :
         /\ DownloadEnds(f) =>
              IF Downloaded(f).kind = "ok"
              THEN /\ store' = StoredConfig(flows[f].link, Downloaded(f).config)
                   /\ entries' = entries
                   /\ \/ flows'[f].pc = "validating" /\ flows'[f].query = "none"
                      \/ last'.flow = f /\ ~last'.queried
              ELSE store' = store /\ last'.flow = f /\ ~last'.called
         /\ UserStepContinues(f) => store' = store
         /\ UserStepStarts(f) /\ HoldsConfig(store) =>
              /\ store' = store
              /\ ~flows'[f].first_setup /\ ~flows'[f].requested
              /\ flows'[f].pc # "download"
              /\ last'.flow = f => ~last'.first_setup /\ ~last'.requested
      ]_vars

\* C31's case: a first-setup submission stored the downloaded config, its
\* bulb validation failed afterwards, and the config is still stored.
C31_Witness ==
  /\ last.handler = "user" /\ last.first_setup /\ last.stored
  /\ last.download.kind = "ok" /\ ~last.download.config.empty
  /\ last.queried /\ last.result.type = "form"
  /\ store = StoredConfig(last.link, last.download.config)

\* C32: whatever the store holds, _is_first_setup is true exactly when
\* async_has_stored_config is false, and right after async_clear_config
\* both report that no config is stored.
C32_FirstSetupIffNothingStored ==
  /\ _is_first_setup(store) <=> ~async_has_stored_config(store)
  /\ last.handler = "async_clear_config" =>
       _is_first_setup(store) /\ ~async_has_stored_config(store)

\* The step starts a passive-discovery flow in slot f.
DiscoveryStarts(f) ==
  /\ flows[f].pc = "idle"
  /\ \/ last'.flow = f /\ last'.handler = "discovery"
     \/ flows'[f].pc # "idle" /\ flows'[f].handler = "discovery"

\* The MAC of the hint that started the flow in slot f in the step.
HintedMac(f) ==
  IF last'.flow = f THEN last'.discovered_device.mac_address
  ELSE flows'[f].discovered_device.mac_address

\* A passive-discovery flow other than f is in progress for unique id mac.
PassiveInProgress(fls, f, mac) ==
  \E g \in Flows \ {f} :
    /\ InProgress(fls[g]) /\ fls[g].source = "discovery"
    /\ fls[g].unique_id = mac

\* The step is the return of the validator to the user step of flow f, with
\* the bulb's MAC.
UserValidated(f) ==
  /\ flows[f].handler = "user" /\ flows[f].pc = "validating"
  /\ flows'[f].pc # "validating"
  /\ (IF last'.flow = f THEN last'.query ELSE flows'[f].query) = "ok"

\* The unique id the user step of flow f assigned in the step.
AssignedId(f) ==
  IF last'.flow = f THEN last'.unique_id ELSE flows'[f].unique_id

\* C33: a passive-discovery flow that starts while another passive-discovery
\* flow is in progress with the same MAC as its unique id is aborted with
\* already_in_progress, without validator call, bulb query or entry write;
\* a user step whose bulb reports a MAC that a passive flow in progress
\* holds assigns that unique id all the same and goes on to the commit, and
\* no user flow ever ends with already_in_progress.
C33_SecondHintAbortsUserCommits ==
  /\ [](last.source = "user" => last.result # AbortResult("already_in_progress"))
  /\ [][\A f \in Flows :
         /\ DiscoveryStarts(f) /\ PassiveInProgress(flows, f, HintedMac(f)) =>
              /\ last'.flow = f
              /\ last'.result = AbortResult("already_in_progress")
              /\ ~last'.called /\ ~last'.queried
              /\ last'.wrote = "none" /\ entries' = entries
         /\ UserValidated(f) /\ PassiveInProgress(flows, f, AssignedId(f)) =>
              \/ flows'[f].pc = "naming"
              \/ /\ last'.flow = f
                 /\ last'.result = AbortResult("already_configured")
      ]_vars

\* C33's case: a second hint for the MAC of a passive flow in progress was
\* aborted with already_in_progress.
C33_Witness ==
  /\ last.handler = "discovery"
  /\ last.result = AbortResult("already_in_progress")
  /\ PassiveInProgress(flows, last.flow, last.discovered_device.mac_address)

\* s contains p.
Contains(s, p) ==
  \E i \in 1..(Len(s) - Len(p) + 1) : SubSeq(s, i, i + Len(p) - 1) = p

\* C34: the title of a created entry whose MAC has a named record in the
\* stored document contains "(<room name>)" whenever the record's room_id is
\* the room_id of a room of the document, room_id 0 included; when the
\* record has no name the title is the base name alone.
C34_RoomNamedForEveryId ==
  last.result = CreateEntryResult =>
    \A i \in EntriesOf(entries, last.unique_id) :
      LET d == MatchedDevice(store, last.mac)
          base == name_from_bulb_type_and_mac(last.bulbtype, last.mac).name
      IN d # 0 =>
           IF store.config.devices[d].name = ""
           THEN entries[i].title = base
           ELSE \A r \in RoomsOf(store, d) :
                  Contains(entries[i].title,
                           "(" \o store.config.rooms[r].name \o ")")

\* The custom effects of the stored config that have a name, are not
\* disabled and parse, in the order of the config.
Loadable(effect_data) ==
  /\ effect_data.name # "" /\ effect_data.state
  /\ _create_preview_effect(effect_data).raised = ""
LoadableEffects(st) ==
  IF ~st.present THEN << >>
  ELSE SelectSeq(CustomEffectsOf(st.config), Loadable)

\* C35: after one or more loads of the unchanged stored config the name
\* list and the preview list have the same length and hold, position by
\* position, the name and the preview of each custom effect of the config
\* that has a name, is not disabled and parses, each once.
C35_OneElementPerEffect ==
  last.handler = "async_load_effects" =>
    /\ Len(get_effect_names(manager)) = Len(get_preview_effects(manager))
    /\ Len(get_effect_names(manager)) = Len(LoadableEffects(store))
    /\ \A i \in DOMAIN LoadableEffects(store) :
         /\ get_effect_names(manager)[i] = LoadableEffects(store)[i].name
         /\ get_preview_effects(manager)[i] =
              _create_preview_effect(LoadableEffects(store)[i]).preview

====
